---- MODULE Spec2Model ----
(***************************************************************************)
(* Module client/server communication layer of talkie:                     *)
(* CircuitBreaker, RetryPolicy, LoadBalancer and ModuleAPIClient.          *)
(*                                                                         *)
(* Time is an integer clock `now` (seconds); time.time() reads it,         *)
(* time.sleep(d) advances it by d, and Tick lets real time pass.           *)
(* Floats of the source are modelled by integers (all inputs are whole).   *)
(***************************************************************************)
EXTENDS Integers, Sequences, FiniteSets, TLC

VARIABLES
    now,        \* the wall clock read by time.time()
    cb,         \* the CircuitBreaker object
    cbth,       \* SpecCB: the caller of CircuitBreaker.call (position, last outcome)
    cbobs,      \* SpecCB: observations (calls begun, work invocations, failure streak)
    rp,         \* the RetryPolicy object
    rx,         \* SpecRetry: the locals of RetryPolicy.execute and how it ended
    robs,       \* observations of execute (func invocations, exceptions, sleeps)
    lb,         \* the LoadBalancer object
    net,        \* SpecClient: how each endpoint's server behaves
    rq,         \* SpecClient: the locals of ModuleAPIClient._request and how it ended
    cobs,       \* SpecClient: observations of the current request
    lbobs,      \* SpecLB: observations of the calls made on the LoadBalancer
    sr,         \* the ServiceRegistry object
    keydb,      \* the entries of the KeyDB cache server
    consul,     \* the instances registered in the authoritative directory
    srobs,      \* SpecRegistry: observations of the last call on the registry
    disc,       \* SpecDiscovery: the discovery fields of ModuleAPIClient, and
                \* how far its constructor has got
    th,         \* the threads sharing one object: position and locals of each
    dobs        \* SpecDiscovery: observations of refreshes and health checks

cbVars == <<cb, cbth, cbobs>>
rpVars == <<rp, rx, robs>>
srVars == <<sr, keydb, consul, srobs>>
dcVars == <<disc, th, dobs>>
auxVars == <<lbobs, srVars, dcVars>>
clVars == <<lb, net, rq, cobs, auxVars>>
vars == <<now, cb, cbth, cbobs, rp, rx, robs, lb, net, rq, cobs, lbobs,
          sr, keydb, consul, srobs, disc, th, dobs>>

----------------------------------------------------------------------------
(* Bounds of the model *)

MaxTime == 5            \* the clock stops ticking here
MaxThresholdArg == 3    \* configured failure_threshold ranges over 0..MaxThresholdArg
MaxRecoveryArg == 2     \* configured recovery_timeout_sec ranges over 0..MaxRecoveryArg
MaxCalls == 6           \* CircuitBreaker.call invocations per behaviour (SpecCB)
MaxRetriesArg == 3      \* configured max_retries ranges over -1..MaxRetriesArg
MaxDelayArg == 3        \* configured initial/max delay range over 0..MaxDelayArg
MaxMultiplierArg == 3   \* configured backoff_multiplier ranges over 0..MaxMultiplierArg
MaxExecutes == 2        \* RetryPolicy.execute invocations per behaviour (SpecRetry)
MaxRetryMax == 1        \* SpecClient: retry_max ranges over 0..MaxRetryMax
MaxRetryDelay == 1      \* SpecClient: retry_delay_sec ranges over 0..MaxRetryDelay
MaxFailover == 2        \* SpecClient: max_failover_attempts ranges over 1..MaxFailover
MaxClientTime == 2      \* SpecClient: the clock stops here
MaxClientThreshold == 2 \* SpecClient: failure_threshold ranges over 1..MaxClientThreshold
MaxRequests == 2        \* SpecClient: _request invocations per behaviour
MaxClientRecovery == 1  \* SpecClient: recovery_timeout_sec ranges over 1..MaxClientRecovery
MaxEndpointsArg == 3    \* SpecLB: the constructor's list has up to MaxEndpointsArg entries
MaxConnections == 1     \* SpecLB: increment_connections stops at this count
MaxSelects == 6         \* SpecLB: select_endpoint calls counted on an unchanged list
MaxLBTime == 1          \* SpecLB: the clock stops here
MaxTtl == 1             \* SpecRegistry: cache_ttl_sec ranges over 1..MaxTtl
MaxRegistryTime == 2    \* SpecRegistry: the clock stops here
MaxRegistryCalls == 3   \* SpecRegistry: calls and outside changes per behaviour
ClockStep == 30         \* SpecDiscovery: the clock advances by ClockStep seconds
MaxIntervalSteps == 1   \* SpecDiscovery: health_check_interval_sec is up to
                        \* MaxIntervalSteps clock steps
MaxDiscTicks == 2       \* SpecDiscovery: the clock stops after MaxDiscTicks steps
MaxChecks == 2          \* SpecDiscovery: _check_health calls after construction
MaxDiscRequests == 1    \* SpecDiscovery: _request calls per behaviour
MaxDirChanges == 1      \* SpecDiscovery: changes of the directory per behaviour
MaxThreadAttempts == 2  \* SpecThreads: attempts of _request per thread
MaxBreakerThreshold == 2 \* SpecBreakerThreads: failure_threshold ranges over 1..MaxBreakerThreshold
MaxBreakerOps == 2      \* SpecBreakerThreads: call/reset/get_state invocations per thread
MaxBreakerTime == 2     \* SpecBreakerThreads: the clock stops here

----------------------------------------------------------------------------
(* Helpers *)

Max(a, b) == IF a >= b THEN a ELSE b
Min(a, b) == IF a <= b THEN a ELSE b

\* Python's None for last_failure_time (the clock is never negative)
None == -1

----------------------------------------------------------------------------
(* CircuitBreaker  (modules/api/circuit_breaker.py) *)

CLOSED == "closed"
OPEN == "open"
HALF_OPEN == "half_open"
CircuitState == {CLOSED, OPEN, HALF_OPEN}

\* The two clamps of __init__
ClampThreshold(failure_threshold) == Max(1, failure_threshold)
ClampRecovery(recovery_timeout_sec) == Max(1, recovery_timeout_sec)

\* CircuitBreaker.__init__
CircuitBreakerInit(failure_threshold, recovery_timeout_sec) ==
    [ failure_threshold    |-> ClampThreshold(failure_threshold),
      recovery_timeout_sec |-> ClampRecovery(recovery_timeout_sec),
      state                |-> CLOSED,
      failure_count        |-> 0,
      last_failure_time    |-> None ]

\* Mutant: the recovery test is off by one second (admits too early)
RecoveryElapsedEarly(b, t) == t - b.last_failure_time >= b.recovery_timeout_sec - 1

\* elapsed >= recovery_timeout_sec, the test of the gate
RecoveryElapsed(b, t) == t - b.last_failure_time >= b.recovery_timeout_sec

\* The gate of call(): TRUE when the call raises "Circuit breaker is OPEN"
CBRejects(b, t) ==
    /\ b.state = OPEN
    /\ \/ b.last_failure_time = None
       \/ ~RecoveryElapsed(b, t)

\* Mutant: entering HALF_OPEN keeps the old failure counter
CBAdmitKeepsCount(b, t) ==
    IF b.state = OPEN /\ b.last_failure_time # None /\ RecoveryElapsed(b, t)
    THEN [b EXCEPT !.state = HALF_OPEN]
    ELSE b

\* The gate of call() when it lets the call through: the breaker afterwards
CBAdmit(b, t) ==
    IF b.state = OPEN /\ b.last_failure_time # None /\ RecoveryElapsed(b, t)
    THEN [b EXCEPT !.state = HALF_OPEN, !.failure_count = 0]
    ELSE b

\* Mutant: a success forgets the last failure whatever the state
CBOnSuccessForgetsFailure(b) ==
    IF b.state = HALF_OPEN
    THEN [b EXCEPT !.state = CLOSED, !.failure_count = 0, !.last_failure_time = None]
    ELSE IF b.state = CLOSED
         THEN [b EXCEPT !.failure_count = 0]
         ELSE [b EXCEPT !.last_failure_time = None]

\* The bookkeeping after func returned
CBOnSuccess(b) ==
    IF b.state = HALF_OPEN
    THEN [b EXCEPT !.state = CLOSED, !.failure_count = 0, !.last_failure_time = None]
    ELSE IF b.state = CLOSED
         THEN [b EXCEPT !.failure_count = 0]
         ELSE b

\* Mutant: the threshold test is strict
ThresholdReachedStrict(count, threshold) == count > threshold

\* failure_count >= failure_threshold
ThresholdReached(count, threshold) == count >= threshold

\* Mutant: a HALF_OPEN failure re-opens only once the threshold is reached
CBOnFailureThresholdInHalfOpen(b, t) ==
    LET c == b.failure_count + 1
        s == IF ThresholdReached(c, b.failure_threshold) THEN OPEN ELSE b.state
    IN [b EXCEPT !.failure_count = c, !.last_failure_time = t, !.state = s]

\* The bookkeeping after func raised
CBOnFailure(b, t) ==
    LET c == b.failure_count + 1
        s == IF b.state = HALF_OPEN
             THEN OPEN
             ELSE IF b.state = CLOSED /\ ThresholdReached(c, b.failure_threshold)
                  THEN OPEN
                  ELSE b.state
    IN [b EXCEPT !.failure_count = c, !.last_failure_time = t, !.state = s]

\* CircuitBreaker.reset
CBReset(b) ==
    [b EXCEPT !.state = CLOSED, !.failure_count = 0, !.last_failure_time = None]

----------------------------------------------------------------------------
(* RetryPolicy  (modules/api/retry.py) *)

\* RetryPolicy.__init__ with its four clamps
RetryPolicyInit(max_retries, initial_delay_sec, max_delay_sec, backoff_multiplier) ==
    [ max_retries        |-> Max(0, max_retries),
      initial_delay      |-> Max(0, initial_delay_sec),
      max_delay          |-> Max(Max(0, initial_delay_sec), max_delay_sec),
      backoff_multiplier |-> Max(1, backoff_multiplier) ]

\* The should_retry arguments tried: "None" is the default (argument absent)
ShouldRetryFns == {"None", "always", "never", "request_only"}
\* The exception classes the callers tell apart: requests.RequestException,
\* RuntimeError, and any other Exception
ErrKinds == {"request", "runtime", "other"}

\* should_retry(e)
ShouldRetryReturns(fn, e) ==
    CASE fn = "always" -> TRUE
      [] fn = "never" -> FALSE
      [] fn = "request_only" -> e.what = "request"
      [] OTHER -> TRUE

\* Mutant: the caller's should_retry is never consulted
NotRetryableIgnored(fn, e) == FALSE

\* `should_retry is not None and not should_retry(e)`
NotRetryable(fn, e) == fn # "None" /\ ~ShouldRetryReturns(fn, e)

\* Mutant: one attempt too few
RetriesExhaustedEarly(attempt, max_retries) == attempt >= max_retries - 1

\* `attempt >= self._max_retries`
RetriesExhausted(attempt, max_retries) == attempt >= max_retries

\* `delay = min(delay * self._backoff_multiplier, self._max_delay)`
NextDelay(delay, p) == Min(delay * p.backoff_multiplier, p.max_delay)

\* The delay slept after a retryable failure: the code multiplies first and
\* sleeps the multiplied delay
SleepFor(delay, p) == NextDelay(delay, p)

\* range(self._max_retries + 1)
AttemptRange(p) == 0..p.max_retries

\* A value flowing out of func or execute: nothing, a result, or an exception;
\* id is the number of the func invocation that produced it.
NoValue == [tag |-> "none", id |-> 0, what |-> "none"]
Returned(k, r) == [tag |-> "ret", id |-> k, what |-> r]
Raised(k, kind) == [tag |-> "exc", id |-> k, what |-> kind]

\* The locals of execute at entry (lines 59-62)
RetryLocals(fn, p) ==
    [pc |-> "call", attempt |-> 0, delay |-> p.initial_delay, fn |-> fn,
     last_exception |-> NoValue, out |-> NoValue]

\* The variables of RetryPolicy when no execute() is modelled
RetryUnused ==
    /\ rp = RetryPolicyInit(0, 0, 0, 0)
    /\ rx = [pc |-> "idle", attempt |-> 0, delay |-> 0, fn |-> "None",
             last_exception |-> NoValue, out |-> NoValue]
    /\ robs = [executes |-> 0, invoked |-> 0, excs |-> <<>>, sleeps |-> <<>>,
               arg |-> 0]

----------------------------------------------------------------------------
(* LoadBalancer  (modules/api/load_balancer.py) *)

ROUND_ROBIN == "round_robin"
RANDOM == "random"
HEALTH_BASED == "health_based"
LEAST_CONNECTIONS == "least_connections"
LoadBalancingStrategy == {ROUND_ROBIN, RANDOM, HEALTH_BASED, LEAST_CONNECTIONS}

\* select_endpoint returning None
NoEndpoint == "None"
\* "/".rstrip("/"): the URL a base_url made of slashes leaves
EmptyUrl == ""
\* `if not endpoint:` (None or the empty string)
NotEndpoint(ep) == ep \in {NoEndpoint, EmptyUrl}
\* select_endpoint raising KeyError: self._connection_counts[ep] for an
\* endpoint of the list that has no count
KeyErrorRaised == "KeyError"

Range(f) == {f[x] : x \in DOMAIN f}

\* Python dict operations: d[k] = v, d.get(k, default), d.pop(k, None)
DictSet(d, k, v) == [x \in DOMAIN d \cup {k} |-> IF x = k THEN v ELSE d[x]]
DictGet(d, k, default) == IF k \in DOMAIN d THEN d[k] ELSE default
DictPop(d, k) == [x \in DOMAIN d \ {k} |-> d[x]]

\* LoadBalancer.__init__
LoadBalancerInit(endpoints, strategy) ==
    [ endpoints           |-> endpoints,
      strategy            |-> strategy,
      current_index       |-> 0,
      connection_counts   |-> [ep \in Range(endpoints) |-> 0],
      last_selection_time |-> [ep \in Range(endpoints) |-> 0],
      health_status       |-> [ep \in Range(endpoints) |-> TRUE] ]

\* Mutant: the health filter lets every endpoint through
HealthyOfAll(l, eps) == eps

\* [ep for ep in eps if self._health_status.get(ep, True)]
HealthyOf(l, eps) == SelectSeq(eps, LAMBDA ep : DictGet(l.health_status, ep, TRUE))

\* Mutant: the round-robin index is not advanced
RoundRobinPickStuck(l, eps) ==
    [ep |-> eps[(l.current_index % Len(eps)) + 1], index |-> l.current_index]

\* The round-robin step over list eps: the selection and the index afterwards
RoundRobinPick(l, eps) ==
    [ep |-> eps[(l.current_index % Len(eps)) + 1],
     index |-> (l.current_index + 1) % Len(eps)]

\* min(self._connection_counts[ep] for ep in eps)
MinConnections(l, eps) ==
    CHOOSE m \in {l.connection_counts[ep] : ep \in Range(eps)} :
        \A ep \in Range(eps) : m <= l.connection_counts[ep]

\* select_endpoint: the set of possible (selection, current_index afterwards);
\* random.choice may return any member of its argument
SelectEndpoint(l) ==
    IF l.endpoints = <<>>
    THEN {[ep |-> NoEndpoint, index |-> l.current_index]}
    ELSE
      LET available ==
              IF l.strategy = HEALTH_BASED /\ HealthyOf(l, l.endpoints) # <<>>
              THEN HealthyOf(l, l.endpoints)
              ELSE l.endpoints
      IN CASE l.strategy = ROUND_ROBIN -> {RoundRobinPick(l, available)}
           [] l.strategy = RANDOM ->
                 {[ep |-> e, index |-> l.current_index] : e \in Range(available)}
           [] l.strategy = HEALTH_BASED ->
                 IF HealthyOf(l, available) # <<>>
                 THEN {RoundRobinPick(l, HealthyOf(l, available))}
                 ELSE {[ep |-> available[1], index |-> l.current_index]}
           [] l.strategy = LEAST_CONNECTIONS ->
                 IF \E x \in Range(available) : x \notin DOMAIN l.connection_counts
                 THEN {[ep |-> KeyErrorRaised, index |-> l.current_index]}
                 ELSE {[ep |-> e, index |-> l.current_index] :
                         e \in {x \in Range(available) :
                                  l.connection_counts[x] = MinConnections(l, available)}}
           [] OTHER -> {RoundRobinPick(l, available)}

\* mark_healthy / mark_unhealthy
MarkHealthy(l, ep) == [l EXCEPT !.health_status = DictSet(@, ep, TRUE)]
MarkUnhealthy(l, ep) == [l EXCEPT !.health_status = DictSet(@, ep, FALSE)]

\* increment_connections at time t
IncrementConnections(l, ep, t) ==
    [l EXCEPT !.connection_counts = DictSet(@, ep, DictGet(@, ep, 0) + 1),
              !.last_selection_time = DictSet(@, ep, t)]

\* Mutant: decrement_connections without the clamp
DecrementConnectionsUnclamped(l, ep) ==
    [l EXCEPT !.connection_counts = DictSet(@, ep, DictGet(@, ep, 0) - 1)]

\* decrement_connections
DecrementConnections(l, ep) ==
    [l EXCEPT !.connection_counts = DictSet(@, ep, Max(0, DictGet(@, ep, 0) - 1))]

\* add_endpoint
AddEndpoint(l, ep) ==
    IF ep \in Range(l.endpoints)
    THEN l
    ELSE [l EXCEPT !.endpoints = Append(@, ep),
                   !.connection_counts = DictSet(@, ep, 0),
                   !.last_selection_time = DictSet(@, ep, 0),
                   !.health_status = DictSet(@, ep, TRUE)]

\* list.remove(x): the list without the first occurrence of x
RECURSIVE ListRemove(_, _)
ListRemove(s, x) ==
    IF s = <<>> THEN <<>>
    ELSE IF Head(s) = x THEN Tail(s)
    ELSE <<Head(s)>> \o ListRemove(Tail(s), x)

\* remove_endpoint
RemoveEndpoint(l, ep) ==
    IF ep \in Range(l.endpoints)
    THEN [l EXCEPT !.endpoints = ListRemove(@, ep),
                   !.connection_counts = DictPop(@, ep),
                   !.last_selection_time = DictPop(@, ep),
                   !.health_status = DictPop(@, ep)]
    ELSE l

\* The orders in which a for loop can iterate over the Python set S
SetOrders(S) == {p \in [1..Cardinality(S) -> S] : Range(p) = S}

\* for ep in order: self.remove_endpoint(ep) / self.add_endpoint(ep)
RECURSIVE RemoveEach(_, _)
RemoveEach(l, order) ==
    IF order = <<>> THEN l
    ELSE RemoveEach(RemoveEndpoint(l, Head(order)), Tail(order))
RECURSIVE AddEach(_, _)
AddEach(l, order) ==
    IF order = <<>> THEN l
    ELSE AddEach(AddEndpoint(l, Head(order)), Tail(order))

\* update_endpoints(endpoints) where new = set(endpoints): the balancers it
\* can leave, one for each iteration order of the two set differences
UpdateEndpoints(l, new) ==
    LET old == Range(l.endpoints)
    IN { AddEach(RemoveEach(l, r), a) :
            r \in SetOrders(old \ new), a \in SetOrders(new \ old) }

\* What has been observed of the calls made on a balancer: ret, the value the
\* last call returned ("-" for the calls that return nothing); listcalls, the
\* calls made so far that change the endpoint list: "none", "update" (only
\* update_endpoints) or "any" (add_endpoint or remove_endpoint too);
\* selects, the number of select_endpoint calls since construction as long
\* as listcalls is "none"; gone, the endpoints that update_endpoints dropped
\* and no call has added since.
NoLBObs == [ret |-> "-", selects |-> 0, listcalls |-> "none", gone |-> {}]

----------------------------------------------------------------------------
(* ServiceRegistry  (modules/api/service_registry.py) over KeyDBClient       *)
(* (modules/api/keydb_client.py) and the authoritative directory.           *)

\* A string held by the cache: the JSON text of a list (kind "json", val the
\* list), a non-empty text that is not JSON (kind "text"), the empty string
\* (kind "empty"); NoString is Python's None.
NoString == [kind |-> "none", val |-> <<>>]
EmptyString == [kind |-> "empty", val |-> <<>>]
Garbage == [kind |-> "text", val |-> <<>>]
\* json.dumps(v) of a list v
JsonDumps(v) == [kind |-> "json", val |-> v]
\* json.loads(s): whether it raises, and the list it returns otherwise
JsonLoadsRaises(s) == s.kind # "json"
JsonLoads(s) == s.val
\* `if cached:` (neither None nor the empty string)
Truthy(s) == s.kind \in {"json", "text"}

\* The arguments tried
Services == {"speech"}
TagArgs == {"None", "blue"}
Protocols == {"http", "https"}
Hosts == <<"h1", "h2">>

\* f"service:{service_name}:{tag or 'default'}:urls" / ":instances"
CacheKey(service_name, tag, what) ==
    <<"service", service_name, IF tag = "None" THEN "default" ELSE tag, what>>
CacheKeys == { CacheKey(s, t, w) : s \in Services, t \in TagArgs,
                                   w \in {"urls", "instances"} }

\* Mutant: a get that raises returns the stored string all the same
KeyDBGetIgnoresError(db, key, t, ok) ==
    IF key \in DOMAIN db /\ t < db[key].exp THEN db[key].val ELSE NoString

\* KeyDBClient.get: the stored string, None when the key is absent or has
\* expired, None when the server call raises (ok = FALSE)
KeyDBGet(db, key, t, ok) ==
    IF ok /\ key \in DOMAIN db /\ t < db[key].exp THEN db[key].val ELSE NoString
\* KeyDBClient.set(key, value, ex): the entries afterwards
KeyDBSet(db, key, value, ex, t, ok) ==
    IF ok THEN DictSet(db, key, [val |-> value, exp |-> t + ex]) ELSE db
\* Mutant: delete leaves the entry in place
KeyDBDeleteNothing(db, key, ok) == db

\* KeyDBClient.delete(key): the entries afterwards
KeyDBDelete(db, key, ok) == IF ok THEN DictPop(db, key) ELSE db

\* The directory: each host of a service is "down" (not registered or not
\* passing), or healthy without a tag ("plain"), or healthy with tag "blue"
HostStates == {"down", "plain", "blue"}
Matches(state, tag) == state # "down" /\ (tag = "None" \/ state = tag)
\* list_healthy_instances(service_name, tag): the healthy hosts, in order
HealthyHosts(c, service_name, tag) ==
    SelectSeq(Hosts, LAMBDA h : Matches(c[service_name][h], tag))
\* ConsulClient.get_service_urls(service_name, tag, protocol)
ConsulGetServiceUrls(c, service_name, tag, protocol) ==
    LET hs == HealthyHosts(c, service_name, tag)
    IN [i \in 1..Len(hs) |-> <<protocol, hs[i]>>]
\* ConsulClient.get_healthy_services(service_name, tag)
ConsulGetHealthyServices(c, service_name, tag) ==
    LET hs == HealthyHosts(c, service_name, tag)
    IN [i \in 1..Len(hs) |-> <<"instance", hs[i]>>]

\* ServiceRegistry.__init__
ServiceRegistryInit(cache_ttl_sec) == [cache_ttl |-> cache_ttl_sec]

\* The error the directory raises
DirectoryError == [tag |-> "exc", val |-> <<>>]

\* Mutant: a cached list is parsed but the directory is asked all the same
CacheHitNever(cached) == FALSE

\* Lines 58-65 / 99-106: the cached string is returned as the result
CacheHit(cached) ==
    /\ Truthy(cached)
    /\ ~JsonLoadsRaises(cached)
    /\ JsonLoads(cached) # <<>>

\* Mutant: an empty answer of the directory is cached too
ShouldCacheAlways(answer) == TRUE

\* `if urls:` / `if services:` before the cache set (lines 72 and 115)
ShouldCache(answer) == answer # <<>>

\* The body shared by get_healthy_service_urls (lines 55-79) and
\* get_healthy_services (lines 96-122) for cache key `key`, when the
\* directory would answer `answer`: what is returned or raised, the cache
\* afterwards, and what was done on the way.  getok, dirok, setok: whether
\* the cache get, the directory query and the cache set go through; failed:
\* the calls made that raised.
Lookup(key, answer, db, t, ttl, getok, dirok, setok) ==
    LET cached == KeyDBGet(db, key, t, getok)
        getfailed == IF getok THEN {} ELSE {"get"}
    IN IF CacheHit(cached)
       THEN [ ret |-> [tag |-> "ret", val |-> JsonLoads(cached)],
              keydb |-> db, got |-> cached, queried |-> 0, sets |-> 0,
              failed |-> getfailed ]
       ELSE IF ~dirok
       THEN [ ret |-> DirectoryError,
              keydb |-> db, got |-> cached, queried |-> 1, sets |-> 0,
              failed |-> getfailed \cup {"directory"} ]
       ELSE [ ret |-> [tag |-> "ret", val |-> answer],
              keydb |-> IF ShouldCache(answer)
                        THEN KeyDBSet(db, key, JsonDumps(answer), ttl, t, setok)
                        ELSE db,
              got |-> cached, queried |-> 1,
              sets |-> IF ShouldCache(answer) THEN 1 ELSE 0,
              failed |-> getfailed \cup
                         (IF ShouldCache(answer) /\ ~setok THEN {"set"} ELSE {}) ]

\* What has been observed of the last call on the registry: op, the method;
\* key, the cache key it used; got, what the cache get returned; queried,
\* the directory queries it made; sets, the cache sets it issued; ret, what
\* it returned or raised; protocol, its protocol argument ("-" if none);
\* failed, the calls it made that raised; deleted, the cache keys an
\* invalidate_cache removed; calls, the calls and outside changes so far.
NoRegistryObs ==
    [op |-> "none", key |-> <<>>, got |-> NoString, queried |-> 0, sets |-> 0,
     ret |-> [tag |-> "none", val |-> <<>>], protocol |-> "-", failed |-> {},
     deleted |-> {}, calls |-> 0]

\* The discovery fields, threads and their observations when neither service
\* discovery nor threads are modelled
DiscoveryUnused ==
    /\ disc = <<>>
    /\ th = <<>>
    /\ dobs = <<>>

\* The variables of ServiceRegistry when no registry is modelled
RegistryUnused ==
    /\ sr = ServiceRegistryInit(0)
    /\ keydb = <<>>
    /\ consul = <<>>
    /\ srobs = NoRegistryObs

----------------------------------------------------------------------------
(* SpecCB: one caller drives a CircuitBreaker; the wrapped work returns one *)
(* of WorkResults or raises one of WorkErrors.                              *)

WorkResults == {"r1", "r2"}
WorkErrors == {"e1", "e2"}
CircuitOpenError == "Circuit breaker is OPEN"

\* cbth.pc: "idle" between calls, "work" while func runs.
\* cbth.out: how the last finished call ended; cbth.val: what it returned or raised.
\* cbobs.calls: calls begun; cbobs.invoked: times func was invoked;
\* cbobs.streak: failures of func since its last success, construction or reset().
\* cbobs.pre: the breaker as the last finished call found it at entry.
\* cbobs.at: the clock at that entry; cbobs.work: what func last returned or raised.
\* cbobs.arg: the failure_threshold argument given to the constructor.

\* The caller of SpecCB when only the breaker object is used
BreakerCallerUnused(ft, rt) ==
    /\ cb = CircuitBreakerInit(ft, rt)
    /\ cbth = [pc |-> "idle", out |-> "none", val |-> "none"]
    /\ cbobs = [calls |-> 0, invoked |-> 0, streak |-> 0, arg |-> ft,
                pre |-> CircuitBreakerInit(ft, rt), at |-> 0, work |-> "none"]

\* The variables of ModuleAPIClient when no client is modelled
ClientUnused ==
    /\ lb = LoadBalancerInit(<<>>, ROUND_ROBIN)
    /\ net = <<>>
    /\ rq = [pc |-> "idle", attempt |-> 0, endpoint |-> NoEndpoint,
             max_failover_attempts |-> 0, should_retry |-> "None",
             last_exception |-> NoValue, out |-> NoValue]
    /\ cobs = [requests |-> 0, http |-> 0, pre |-> cb]
    /\ lbobs = NoLBObs
    /\ RegistryUnused
    /\ DiscoveryUnused

InitCB ==
    /\ now = 0
    /\ \E ft \in 0..MaxThresholdArg, rt \in 0..MaxRecoveryArg :
          /\ cb = CircuitBreakerInit(ft, rt)
          /\ cbobs = [calls |-> 0, invoked |-> 0, streak |-> 0, arg |-> ft,
                      pre |-> CircuitBreakerInit(ft, rt), at |-> 0,
                      work |-> "none"]
    /\ cbth = [pc |-> "idle", out |-> "none", val |-> "none"]
    /\ RetryUnused
    /\ ClientUnused

Tick ==
    /\ now < MaxTime
    /\ now' = now + 1
    /\ UNCHANGED <<cbVars, rpVars, clVars>>

\* call(): the gate raises
CBCallRejected ==
    /\ cbth.pc = "idle"
    /\ cbobs.calls < MaxCalls
    /\ CBRejects(cb, now)
    /\ cbth' = [pc |-> "idle", out |-> "raised", val |-> CircuitOpenError]
    /\ cbobs' = [cbobs EXCEPT !.calls = @ + 1, !.pre = cb, !.at = now]
    /\ UNCHANGED <<now, cb, rpVars, clVars>>

\* call(): the gate lets the call through to func
CBCallAdmitted ==
    /\ cbth.pc = "idle"
    /\ cbobs.calls < MaxCalls
    /\ ~CBRejects(cb, now)
    /\ cb' = CBAdmit(cb, now)
    /\ cbth' = [pc |-> "work", out |-> "none", val |-> "none"]
    /\ cbobs' = [cbobs EXCEPT !.calls = @ + 1, !.invoked = @ + 1, !.pre = cb, !.at = now]
    /\ UNCHANGED <<now, rpVars, clVars>>

\* func returns r
CBWorkReturns ==
    /\ cbth.pc = "work"
    /\ \E r \in WorkResults :
          /\ cbth' = [pc |-> "idle", out |-> "returned", val |-> r]
          /\ cbobs' = [cbobs EXCEPT !.streak = 0, !.work = r]
    /\ cb' = CBOnSuccess(cb)
    /\ UNCHANGED <<now, rpVars, clVars>>

\* func raises e
CBWorkRaises ==
    /\ cbth.pc = "work"
    /\ \E e \in WorkErrors :
          /\ cbth' = [pc |-> "idle", out |-> "raised", val |-> e]
          /\ cbobs' = [cbobs EXCEPT !.streak = @ + 1, !.work = e]
    /\ cb' = CBOnFailure(cb, now)
    /\ UNCHANGED <<now, rpVars, clVars>>

\* reset() between calls
CBManualReset ==
    /\ cbth.pc = "idle"
    /\ cb' = CBReset(cb)
    /\ cbobs' = [cbobs EXCEPT !.streak = 0]
    /\ cbth' = [pc |-> "idle", out |-> "none", val |-> "none"]
    /\ UNCHANGED <<now, rpVars, clVars>>

NextCB ==
    \/ Tick
    \/ CBCallRejected
    \/ CBCallAdmitted
    \/ CBWorkReturns
    \/ CBWorkRaises
    \/ CBManualReset

SpecCB == InitCB /\ [][NextCB]_vars

----------------------------------------------------------------------------
(* SpecRetry: RetryPolicy.execute run on a func that returns or raises at   *)
(* will.  rx.pc: "idle" between executes, "call" when func is about to be   *)
(* invoked.  robs.excs: the exceptions func raised in this execute, in      *)
(* order; robs.sleeps: the time.sleep arguments of this execute, in order;  *)
(* robs.arg: the max_retries argument given to the constructor.             *)

InitRetry ==
    /\ now = 0
    /\ \E mr \in (-1)..MaxRetriesArg, d0 \in 0..MaxDelayArg,
          dm \in 0..MaxDelayArg, bm \in 0..MaxMultiplierArg :
          /\ rp = RetryPolicyInit(mr, d0, dm, bm)
          /\ robs = [executes |-> 0, invoked |-> 0, excs |-> <<>>, sleeps |-> <<>>,
                     arg |-> mr]
    /\ rx = [pc |-> "idle", attempt |-> 0, delay |-> 0, fn |-> "None",
             last_exception |-> NoValue, out |-> NoValue]
    /\ BreakerCallerUnused(1, 1)
    /\ ClientUnused

\* execute(func, should_retry) is entered: lines 59-62
RetryExecuteBegin ==
    /\ rx.pc = "idle"
    /\ robs.executes < MaxExecutes
    /\ \E fn \in ShouldRetryFns : rx' = RetryLocals(fn, rp)
    /\ robs' = [robs EXCEPT !.executes = @ + 1, !.invoked = 0,
                            !.excs = <<>>, !.sleeps = <<>>]
    /\ UNCHANGED <<now, rp, cbVars, clVars>>

\* func() returns: line 64
RetryFuncReturns ==
    /\ rx.pc = "call"
    /\ \E r \in WorkResults :
          rx' = [rx EXCEPT !.pc = "idle", !.out = Returned(robs.invoked + 1, r)]
    /\ robs' = [robs EXCEPT !.invoked = @ + 1]
    /\ UNCHANGED <<now, rp, cbVars, clVars>>

\* The except block of execute for exception e of func (lines 65-95): the
\* locals x, the observations o and the clock t afterwards, under policy p
RetryHandle(x, o, t, p, e) ==
    IF NotRetryable(x.fn, e) \/ RetriesExhausted(x.attempt, p.max_retries)
    THEN [ rx   |-> [x EXCEPT !.pc = "idle", !.last_exception = e, !.out = e],
           robs |-> [o EXCEPT !.invoked = @ + 1, !.excs = Append(@, e)],
           now  |-> t ]
    ELSE LET d == SleepFor(x.delay, p) IN
         [ rx   |-> IF x.attempt + 1 \in AttemptRange(p)
                    THEN [x EXCEPT !.attempt = @ + 1, !.delay = NextDelay(@, p),
                                   !.last_exception = e]
                    ELSE [x EXCEPT !.pc = "idle", !.delay = NextDelay(@, p),
                                   !.last_exception = e, !.out = e],
           robs |-> [o EXCEPT !.invoked = @ + 1, !.excs = Append(@, e),
                              !.sleeps = Append(@, d)],
           now  |-> t + d ]

\* func() raises
RetryFuncRaises ==
    /\ rx.pc = "call"
    /\ \E kind \in ErrKinds :
          LET h == RetryHandle(rx, robs, now, rp, Raised(robs.invoked + 1, kind))
          IN /\ rx' = h.rx
             /\ robs' = h.robs
             /\ now' = h.now
    /\ UNCHANGED <<rp, cbVars, clVars>>

NextRetry ==
    \/ RetryExecuteBegin
    \/ RetryFuncReturns
    \/ RetryFuncRaises

SpecRetry == InitRetry /\ [][NextRetry]_vars

----------------------------------------------------------------------------
(* ModuleAPIClient  (modules/api/client.py), with static endpoints.         *)
(* SpecClient: one caller issues _request() calls, one at a time, against   *)
(* servers that answer as `net` says.  cobs.requests: requests begun;       *)
(* cobs.http: HTTP calls issued by the current (or last) request;           *)
(* cobs.pre: the breaker as that request found it.                          *)

\* Defaults of RetryPolicy.__init__ that ModuleAPIClient leaves in place
DefaultMaxDelay == 60
DefaultBackoffMultiplier == 2

\* The base_url arguments tried
Endpoints == {"E1", "E2"}
EndpointLists == {<<"E1">>, <<"E1", "E2">>}

\* How a server answers: "ok" always succeeds (and reports ready),
\* "timeout" never answers, "any" may do anything at each call.
Behaviours == {"ok", "timeout", "any"}

\* The servers tried behind a list of endpoints: servers that may do anything
\* (which covers every other choice), and the failover scenario in which the
\* first endpoint always times out and the others always succeed
Networks(eps) ==
    { [ep \in Range(eps) |-> "any"] }
    \cup { n \in [Range(eps) -> Behaviours] :
              /\ Len(eps) > 1
              /\ n[eps[1]] = "timeout"
              /\ \A i \in 2..Len(eps) : n[eps[i]] = "ok" }

\* The should_retry arguments given to _request
RequestShouldRetryFns == {"None", "never", "request_only"}

\* What _do_request can raise, and whether mark_unhealthy ran before:
\* a RequestException (time-out, connection or HTTP error), the RuntimeError
\* made from a JSON error body, or another exception raised while reading
\* the error body (after mark_unhealthy) or the response (before any mark).
DoRequestFailures ==
    { [what |-> "request", marked |-> TRUE],
      [what |-> "runtime", marked |-> TRUE],
      [what |-> "other", marked |-> TRUE],
      [what |-> "other", marked |-> FALSE] }

\* The failures a server of behaviour b can cause
FailuresOf(b) ==
    CASE b = "ok" -> {}
      [] b = "timeout" -> {[what |-> "request", marked |-> TRUE]}
      [] OTHER -> DoRequestFailures

\* The outcomes of GET /health for a server of behaviour b
HealthOutcomes(b) ==
    CASE b = "ok" -> {"ready"}
      [] b = "timeout" -> {"error"}
      [] OTHER -> {"ready", "not_ready", "error"}

\* Mutant: whatever GET /health gives, the endpoint counts as ready
ReadyReportedAlways(h) == TRUE

\* `ready = data.get("ready", False)` after a response that did not raise
\* (lines 218-225)
ReadyReported(h) == h = "ready"

\* Lines 213-239 once select_endpoint gave sel and GET /health gave h: the
\* balancer afterwards
Probe(l, sel, h) ==
    IF NotEndpoint(sel.ep)
    THEN [l EXCEPT !.current_index = sel.index]
    ELSE IF ReadyReported(h)
         THEN MarkHealthy([l EXCEPT !.current_index = sel.index], sel.ep)
         ELSE MarkUnhealthy([l EXCEPT !.current_index = sel.index], sel.ep)

\* _check_health without service discovery (lines 213-239): the balancers
\* it can leave, given how the servers behave
CheckHealth(l, n) ==
    UNION { IF sel.ep = NoEndpoint
            THEN {l}
            ELSE { Probe(l, sel, h) : h \in HealthOutcomes(n[sel.ep]) }
            : sel \in SelectEndpoint(l) }

\* RuntimeError and its kind raised by the breaker's gate
CircuitOpen == [tag |-> "exc", id |-> 0, what |-> "circuit_open"]
IsRuntimeError(e) == e.what \in {"runtime", "circuit_open"}
\* The two except clauses of _request (lines 326 and 341)
CaughtByRequest(e) == IsRuntimeError(e) \/ e.what = "request"

\* ModuleAPIClient.__init__: the state a constructed client starts in
InitClient ==
    /\ now = 0
    /\ \E eps \in EndpointLists, strategy \in LoadBalancingStrategy,
          ft \in 1..MaxClientThreshold, rt \in 1..MaxClientRecovery,
          rm \in 0..MaxRetryMax, rd \in 0..MaxRetryDelay :
          /\ net \in Networks(eps)
          /\ rp = RetryPolicyInit(rm, rd, DefaultMaxDelay, DefaultBackoffMultiplier)
          /\ BreakerCallerUnused(ft, rt)
          /\ lb \in CheckHealth(LoadBalancerInit(eps, strategy), net)
    /\ rx = [pc |-> "idle", attempt |-> 0, delay |-> 0, fn |-> "None",
             last_exception |-> NoValue, out |-> NoValue]
    /\ robs = [executes |-> 0, invoked |-> 0, excs |-> <<>>, sleeps |-> <<>>,
               arg |-> rp.max_retries]
    /\ rq = [pc |-> "idle", attempt |-> 0, endpoint |-> NoEndpoint,
             max_failover_attempts |-> 0, should_retry |-> "None",
             last_exception |-> NoValue, out |-> NoValue]
    /\ cobs = [requests |-> 0, http |-> 0, pre |-> cb]
    /\ lbobs = NoLBObs
    /\ RegistryUnused
    /\ DiscoveryUnused

\* Real time passes
ClientTick ==
    /\ now < MaxClientTime
    /\ now' = now + 1
    /\ UNCHANGED <<cbVars, rpVars, clVars>>

\* The locals of execute and of _request, and the observations of execute,
\* when no call is in progress
NoExecute ==
    [pc |-> "idle", attempt |-> 0, delay |-> 0, fn |-> "None",
     last_exception |-> NoValue, out |-> NoValue]
NoExecuteObs == [robs EXCEPT !.executes = 0, !.invoked = 0, !.excs = <<>>, !.sleeps = <<>>]
NoRequest ==
    [pc |-> "idle", attempt |-> 0, endpoint |-> NoEndpoint,
     max_failover_attempts |-> 0, should_retry |-> "None",
     last_exception |-> NoValue, out |-> NoValue]

\* _request(...) is entered: lines 268-273
RequestBegin ==
    /\ rq.pc = "idle"
    /\ cobs.requests < MaxRequests
    /\ \E mfa \in 1..MaxFailover, fn \in RequestShouldRetryFns :
          rq' = [NoRequest EXCEPT !.pc = "select", !.max_failover_attempts = mfa,
                                  !.should_retry = fn]
    /\ cobs' = [requests |-> cobs.requests + 1, http |-> 0, pre |-> cb]
    /\ UNCHANGED <<now, cbVars, rpVars, lb, net, auxVars>>

\* _request returns or raises v after its attempt on endpoint ep: its locals
\* are gone, the caller holds v
RequestEnds(v, ep) == [NoRequest EXCEPT !.out = v, !.endpoint = ep]

\* Mutant: the except clauses always go on to another attempt
TryNextEndpointAlways(attempt, max_failover_attempts) == TRUE

\* `if attempt < max_failover_attempts - 1:` (lines 335 and 345)
TryNextEndpoint(attempt, max_failover_attempts) ==
    attempt < max_failover_attempts - 1

\* The except clauses of _request (lines 326-351) for exception e raised by
\* the attempt of locals r on r.endpoint, with balancer l as the attempt left
\* it: the balancer and the locals afterwards.  An exception of another class
\* leaves _request at once, without decrement.
AttemptFailed(r, e, l) ==
    IF CaughtByRequest(e)
    THEN [ lb |-> DecrementConnections(l, r.endpoint),
           rq |-> IF TryNextEndpoint(r.attempt, r.max_failover_attempts)
                  THEN [r EXCEPT !.pc = "select", !.attempt = @ + 1,
                                 !.last_exception = e]
                  ELSE RequestEnds(e, r.endpoint) ]
    ELSE [ lb |-> l, rq |-> RequestEnds(e, r.endpoint) ]

\* One pass of the for loop up to the breaker's gate, which raises:
\* lines 275-290, 319 and circuit_breaker.py 62-80
AttemptRejected ==
    /\ rq.pc = "select"
    /\ CBRejects(cb, now)
    /\ \E sel \in SelectEndpoint(lb) :
          /\ sel.ep # NoEndpoint
          /\ LET l == IncrementConnections([lb EXCEPT !.current_index = sel.index],
                                           sel.ep, now)
                 a == AttemptFailed([rq EXCEPT !.endpoint = sel.ep], CircuitOpen, l)
             IN /\ lb' = a.lb
                /\ rq' = a.rq
    /\ UNCHANGED <<now, cbVars, rpVars, net, auxVars, cobs>>

\* One pass of the for loop up to the first invocation of _do_request:
\* the gate lets the call through and execute() is entered
AttemptAdmitted ==
    /\ rq.pc = "select"
    /\ ~CBRejects(cb, now)
    /\ \E sel \in SelectEndpoint(lb) :
          /\ sel.ep # NoEndpoint
          /\ lb' = IncrementConnections([lb EXCEPT !.current_index = sel.index],
                                        sel.ep, now)
          /\ rq' = [rq EXCEPT !.pc = "http", !.endpoint = sel.ep]
    /\ cb' = CBAdmit(cb, now)
    /\ rx' = RetryLocals(rq.should_retry, rp)
    /\ robs' = NoExecuteObs
    /\ UNCHANGED <<now, cbth, cbobs, rp, net, auxVars, cobs>>

\* Mutant: the breaker wraps each invocation of _do_request (retry outside)
CBDuringRetryCounts(b, t) == CBOnFailure(b, t)

\* What the breaker is told when an invocation of _do_request failed and
\* execute() goes on to retry: nothing, the breaker wraps the whole execute
\* (lines 319-323)
CBDuringRetry(b, t) == b

\* The HTTP call succeeds: _do_request returns, execute returns, the breaker
\* records the success, _request decrements and returns (lines 294-305, 324-325)
HttpSucceeds ==
    /\ rq.pc = "http"
    /\ net[rq.endpoint] \in {"ok", "any"}
    /\ rx' = NoExecute
    /\ robs' = NoExecuteObs
    /\ cb' = CBOnSuccess(cb)
    /\ lb' = DecrementConnections(MarkHealthy(lb, rq.endpoint), rq.endpoint)
    /\ rq' = RequestEnds(Returned(robs.invoked + 1, rq.endpoint), rq.endpoint)
    /\ cobs' = [cobs EXCEPT !.http = @ + 1]
    /\ UNCHANGED <<now, cbth, cbobs, rp, net, auxVars>>

\* The HTTP call fails and execute() sleeps and goes on (lines 306-316 and
\* retry.py 65-90)
HttpFailsAndRetries ==
    /\ rq.pc = "http"
    /\ \E f \in FailuresOf(net[rq.endpoint]) :
          LET h == RetryHandle(rx, robs, now, rp, Raised(robs.invoked + 1, f.what))
          IN /\ h.rx.pc = "call"
             /\ h.now <= MaxClientTime
             /\ rx' = h.rx
             /\ robs' = h.robs
             /\ now' = h.now
             /\ lb' = IF f.marked THEN MarkUnhealthy(lb, rq.endpoint) ELSE lb
    /\ cb' = CBDuringRetry(cb, now)
    /\ cobs' = [cobs EXCEPT !.http = @ + 1]
    /\ UNCHANGED <<cbth, cbobs, rp, net, auxVars, rq>>

\* The HTTP call fails and execute() raises: the breaker records the failure
\* and _request handles the exception
HttpFailsAndRaises ==
    /\ rq.pc = "http"
    /\ \E f \in FailuresOf(net[rq.endpoint]) :
          LET e == Raised(robs.invoked + 1, f.what)
              h == RetryHandle(rx, robs, now, rp, e)
              l == IF f.marked THEN MarkUnhealthy(lb, rq.endpoint) ELSE lb
              a == AttemptFailed(rq, h.rx.out, l)
          IN /\ h.rx.pc = "idle"
             /\ lb' = a.lb
             /\ rq' = a.rq
    /\ rx' = NoExecute
    /\ robs' = NoExecuteObs
    /\ cb' = CBOnFailure(cb, now)
    /\ cobs' = [cobs EXCEPT !.http = @ + 1]
    /\ UNCHANGED <<now, cbth, cbobs, rp, net, auxVars>>

NextClient ==
    \/ ClientTick
    \/ RequestBegin
    \/ AttemptRejected
    \/ AttemptAdmitted
    \/ HttpSucceeds
    \/ HttpFailsAndRetries
    \/ HttpFailsAndRaises

SpecClient == InitClient /\ [][NextClient]_vars

----------------------------------------------------------------------------
(* SpecLB: one caller makes calls on a LoadBalancer built from a list of    *)
(* up to MaxEndpointsArg endpoints, which may name an endpoint twice.       *)

\* The endpoints named in the calls
LBEndpoints == {"a", "b"}
\* The lists given to the constructor
EndpointArgs == UNION { [1..k -> LBEndpoints] : k \in 0..MaxEndpointsArg }

\* The variables SpecLB leaves alone
lbRest == <<cbVars, rpVars, net, rq, cobs, srVars, dcVars>>

InitLB ==
    /\ now = 0
    /\ \E eps \in EndpointArgs, strategy \in LoadBalancingStrategy :
          lb = LoadBalancerInit(eps, strategy)
    /\ lbobs = NoLBObs
    /\ BreakerCallerUnused(1, 1)
    /\ RetryUnused
    /\ net = <<>>
    /\ rq = NoRequest
    /\ cobs = [requests |-> 0, http |-> 0, pre |-> cb]
    /\ RegistryUnused
    /\ DiscoveryUnused

\* Real time passes
LBTick ==
    /\ now < MaxLBTime
    /\ now' = now + 1
    /\ UNCHANGED <<lb, lbobs, lbRest>>

\* The observations after a call of kind `call` that returns nothing, when
\* `added` were passed to add_endpoint and `dropped` were removed by
\* update_endpoints
LBObserve(call, added, dropped) ==
    LET lc == CASE call \in {"add", "remove"} -> "any"
                [] call = "update" /\ lbobs.listcalls = "none" -> "update"
                [] OTHER -> lbobs.listcalls
    IN [ ret       |-> "-",
         selects   |-> IF lc = "none" THEN lbobs.selects ELSE 0,
         listcalls |-> lc,
         gone      |-> (lbobs.gone \ added) \cup dropped ]

\* select_endpoint()
LBSelect ==
    /\ lbobs.listcalls # "none" \/ lbobs.selects < MaxSelects
    /\ \E sel \in SelectEndpoint(lb) :
          /\ lb' = [lb EXCEPT !.current_index = sel.index]
          /\ lbobs' = [lbobs EXCEPT !.ret = sel.ep,
                                    !.selects = IF lbobs.listcalls = "none"
                                                 THEN @ + 1 ELSE 0]
    /\ UNCHANGED <<now, lbRest>>

\* mark_healthy(ep)
LBMarkHealthy ==
    /\ \E ep \in LBEndpoints : lb' = MarkHealthy(lb, ep)
    /\ lbobs' = LBObserve("mark", {}, {})
    /\ UNCHANGED <<now, lbRest>>

\* mark_unhealthy(ep)
LBMarkUnhealthy ==
    /\ \E ep \in LBEndpoints : lb' = MarkUnhealthy(lb, ep)
    /\ lbobs' = LBObserve("mark", {}, {})
    /\ UNCHANGED <<now, lbRest>>

\* increment_connections(ep)
LBIncrement ==
    /\ \E ep \in LBEndpoints :
          /\ DictGet(lb.connection_counts, ep, 0) < MaxConnections
          /\ lb' = IncrementConnections(lb, ep, now)
    /\ lbobs' = LBObserve("count", {}, {})
    /\ UNCHANGED <<now, lbRest>>

\* decrement_connections(ep)
LBDecrement ==
    /\ \E ep \in LBEndpoints : lb' = DecrementConnections(lb, ep)
    /\ lbobs' = LBObserve("count", {}, {})
    /\ UNCHANGED <<now, lbRest>>

\* add_endpoint(ep)
LBAdd ==
    /\ \E ep \in LBEndpoints :
          /\ lb' = AddEndpoint(lb, ep)
          /\ lbobs' = LBObserve("add", {ep}, {})
    /\ UNCHANGED <<now, lbRest>>

\* remove_endpoint(ep)
LBRemove ==
    /\ \E ep \in LBEndpoints : lb' = RemoveEndpoint(lb, ep)
    /\ lbobs' = LBObserve("remove", {}, {})
    /\ UNCHANGED <<now, lbRest>>

\* update_endpoints(endpoints) with set(endpoints) = new
LBUpdate ==
    /\ \E new \in SUBSET LBEndpoints :
          /\ lb' \in UpdateEndpoints(lb, new)
          /\ lbobs' = LBObserve("update", new \ Range(lb.endpoints),
                                       Range(lb.endpoints) \ new)
    /\ UNCHANGED <<now, lbRest>>

NextLB ==
    \/ LBTick
    \/ LBSelect
    \/ LBMarkHealthy
    \/ LBMarkUnhealthy
    \/ LBIncrement
    \/ LBDecrement
    \/ LBAdd
    \/ LBRemove
    \/ LBUpdate

SpecLB == InitLB /\ [][NextLB]_vars

----------------------------------------------------------------------------
(* SpecRegistry: one caller makes calls on a ServiceRegistry while the      *)
(* directory changes, cache entries expire and other processes write the    *)
(* cache.                                                                   *)

\* The variables SpecRegistry leaves alone
srRest == <<cbVars, rpVars, lb, net, rq, cobs, lbobs, dcVars>>

InitRegistry ==
    /\ now = 0
    /\ \E ttl \in 1..MaxTtl : sr = ServiceRegistryInit(ttl)
    /\ keydb = <<>>
    /\ consul \in [Services -> [Range(Hosts) -> HostStates]]
    /\ srobs = NoRegistryObs
    /\ BreakerCallerUnused(1, 1)
    /\ RetryUnused
    /\ lb = LoadBalancerInit(<<>>, ROUND_ROBIN)
    /\ net = <<>>
    /\ rq = NoRequest
    /\ cobs = [requests |-> 0, http |-> 0, pre |-> cb]
    /\ lbobs = NoLBObs
    /\ DiscoveryUnused

\* Real time passes; the cache server drops the entries that expire
RegistryTick ==
    /\ now < MaxRegistryTime
    /\ now' = now + 1
    /\ keydb' = [k \in {x \in DOMAIN keydb : keydb[x].exp > now + 1} |-> keydb[k]]
    /\ UNCHANGED <<sr, consul, srobs, srRest>>

\* The observations after a lookup r of kind op under cache key key
LookupObserved(op, key, protocol, r) ==
    [op |-> op, key |-> key, got |-> r.got, queried |-> r.queried,
     sets |-> r.sets, ret |-> r.ret, protocol |-> protocol,
     failed |-> r.failed, deleted |-> {}, calls |-> srobs.calls + 1]

\* get_healthy_service_urls(service_name, tag, protocol)
GetHealthyServiceUrls ==
    /\ srobs.calls < MaxRegistryCalls
    /\ \E service_name \in Services, tag \in TagArgs, protocol \in Protocols,
          getok \in BOOLEAN, dirok \in BOOLEAN, setok \in BOOLEAN :
          LET key == CacheKey(service_name, tag, "urls")
              r == Lookup(key,
                          ConsulGetServiceUrls(consul, service_name, tag, protocol),
                          keydb, now, sr.cache_ttl, getok, dirok, setok)
          IN /\ keydb' = r.keydb
             /\ srobs' = LookupObserved("urls", key, protocol, r)
    /\ UNCHANGED <<now, sr, consul, srRest>>

\* get_healthy_services(service_name, tag)
GetHealthyServices ==
    /\ srobs.calls < MaxRegistryCalls
    /\ \E service_name \in Services, tag \in TagArgs,
          getok \in BOOLEAN, dirok \in BOOLEAN, setok \in BOOLEAN :
          LET key == CacheKey(service_name, tag, "instances")
              r == Lookup(key,
                          ConsulGetHealthyServices(consul, service_name, tag),
                          keydb, now, sr.cache_ttl, getok, dirok, setok)
          IN /\ keydb' = r.keydb
             /\ srobs' = LookupObserved("instances", key, "-", r)
    /\ UNCHANGED <<now, sr, consul, srRest>>

\* invalidate_cache(service_name, tag): lines 163-168
InvalidateCache ==
    /\ srobs.calls < MaxRegistryCalls
    /\ \E service_name \in Services, tag \in TagArgs,
          ok1 \in BOOLEAN, ok2 \in BOOLEAN :
          LET k1 == CacheKey(service_name, tag, "urls")
              k2 == CacheKey(service_name, tag, "instances")
          IN /\ keydb' = KeyDBDelete(KeyDBDelete(keydb, k1, ok1), k2, ok2)
             /\ srobs' = [NoRegistryObs EXCEPT
                            !.op = "invalidate", !.key = k1,
                            !.failed = (IF ok1 THEN {} ELSE {"delete_urls"})
                                       \cup (IF ok2 THEN {} ELSE {"delete_instances"}),
                            !.deleted = DOMAIN keydb \ DOMAIN keydb',
                            !.calls = srobs.calls + 1]
    /\ UNCHANGED <<now, sr, consul, srRest>>

\* An instance registers, deregisters, or changes health or tag
DirectoryChanges ==
    /\ srobs.calls < MaxRegistryCalls
    /\ \E service_name \in Services, h \in Range(Hosts), st \in HostStates :
          /\ consul[service_name][h] # st
          /\ consul' = [consul EXCEPT ![service_name][h] = st]
    /\ srobs' = [NoRegistryObs EXCEPT !.op = "outside", !.calls = srobs.calls + 1]
    /\ UNCHANGED <<now, sr, keydb, srRest>>

\* The strings another process may store under cache key k: an empty or
\* damaged value, or the list another registry would cache now
OutsideValues(k) ==
    {EmptyString, Garbage, JsonDumps(<<>>)}
    \cup { JsonDumps(v) :
             v \in IF k[4] = "urls"
                   THEN { ConsulGetServiceUrls(consul, k[2],
                              IF k[3] = "default" THEN "None" ELSE k[3], p) :
                          p \in Protocols }
                   ELSE { ConsulGetHealthyServices(consul, k[2],
                              IF k[3] = "default" THEN "None" ELSE k[3]) } }

\* Another process sharing the cache server sets an entry
CacheWrittenOutside ==
    /\ srobs.calls < MaxRegistryCalls
    /\ \E k \in CacheKeys, ttl \in 1..MaxTtl :
          \E v \in OutsideValues(k) :
             keydb' = KeyDBSet(keydb, k, v, ttl, now, TRUE)
    /\ srobs' = [NoRegistryObs EXCEPT !.op = "outside", !.calls = srobs.calls + 1]
    /\ UNCHANGED <<now, sr, consul, srRest>>

NextRegistry ==
    \/ RegistryTick
    \/ GetHealthyServiceUrls
    \/ GetHealthyServices
    \/ InvalidateCache
    \/ DirectoryChanges
    \/ CacheWrittenOutside

SpecRegistry == InitRegistry /\ [][NextRegistry]_vars

----------------------------------------------------------------------------
(* ModuleAPIClient with service discovery  (modules/api/client.py 98-239,   *)
(* 273-290).  SpecDiscovery: thread t1 constructs a client; after that the  *)
(* threads call _check_health, whose steps interleave, and a caller issues  *)
(* _request calls with max_failover_attempts = 1 against servers that may   *)
(* answer or fail, while the directory changes and time passes.             *)

Threads == {"t1", "t2"}
Constructor == "t1"
\* module_name, the service the client looks up
ModuleName == "speech"
\* The endpoint lists of the base_url arguments tried: None, one static URL,
\* and "/" (which rstrip("/") turns into the empty string)
StaticUrl == "http://s1"
BaseUrlArgs == {<<>>, <<StaticUrl>>, <<EmptyUrl>>}
\* The text of a URL of the registry and of a list of them
UrlText(u) == u[1] \o "://" \o u[2]
UrlTexts(urls) == [i \in 1..Len(urls) |-> UrlText(urls[i])]
\* ServiceRegistry(consul, keydb) as the client builds it: default cache_ttl_sec
DefaultCacheTtl == 30
\* time.time() when the constructor runs: a Unix time, larger than every
\* interval
ConstructionTime == ClockStep * (MaxIntervalSteps + 1)
\* The health_check_interval_sec arguments tried
CheckIntervals == {ClockStep * k : k \in 1..MaxIntervalSteps}
\* The load_balancing_strategy arguments tried
DiscStrategies == {ROUND_ROBIN, HEALTH_BASED}
\* The outcomes of GET /health
HealthResults == {"ready", "not_ready", "error"}

\* disc.use: use_service_discovery once the registry is built;
\* disc.interval, disc.last: _health_check_interval, _last_discovery_refresh;
\* disc.lock: the holder of _discovery_lock or "free"; disc.endpoints:
\* self._endpoints; disc.base: the base_url argument; disc.pc: the
\* constructor is before line 141 ("init_refresh"), before line 176
\* ("init_health"), has returned ("ready") or raised ("failed").
\* th[t].pc: thread t is outside _check_health ("idle"), before line 207
\* ("lock"), before line 209 holding the lock ("refresh"), before line 213
\* ("probe"); th[t].now: its local `now`.
\* dobs.flip changes at every refresh; dobs.refresh_at, dobs.refresh_by: the
\* clock at the last refresh and who made it ("init": line 142, "check":
\* line 209, "request": line 279); dobs.started: the local `now` of the last
\* _check_health that refreshed; dobs.skipped: some _check_health found under
\* the lock that the refresh was no longer due; dobs.checks: _check_health
\* calls begun after construction; dobs.requests: _request calls counted;
\* dobs.turn changes at every _request that is not counted;
\* dobs.changes: changes of the directory;
\* dobs.health, dobs.checked: what GET /health gave the constructor and on
\* which endpoint.
\* The RuntimeError of _request at lines 285-287; dobs.raised is this error
\* when the last _request raised it, "none" otherwise.
NoHealthyEndpoints == "No healthy endpoints available"
NoDiscObs ==
    [flip |-> 0, refresh_at |-> None, refresh_by |-> "none", started |-> None,
     skipped |-> FALSE, checks |-> 0, requests |-> 0, turn |-> 0, changes |-> 0,
     health |-> "none",
     checked |-> NoEndpoint, raised |-> "none"]

\* The observations after a refresh made by `by` (started: the local `now`
\* of the _check_health that made it)
Refreshed(o, by, started, t) ==
    [o EXCEPT !.flip = 1 - @, !.refresh_at = t, !.refresh_by = by,
              !.started = IF by = "check" THEN started ELSE @]

\* _refresh_endpoints_from_discovery (lines 180-199) on balancer l with
\* self._endpoints = eps: the balancers, lists and cache it can leave.  An
\* exception of the registry is logged and nothing changes.
RefreshEndpoints(l, eps, db, c, t, ttl, dirok) ==
    LET r == Lookup(CacheKey(ModuleName, "None", "urls"),
                    ConsulGetServiceUrls(c, ModuleName, "None", "http"),
                    db, t, ttl, TRUE, dirok, TRUE)
    IN IF r.ret.tag = "ret" /\ r.ret.val # <<>>
       THEN { [lb |-> l2, endpoints |-> UrlTexts(r.ret.val), keydb |-> r.keydb] :
                l2 \in UpdateEndpoints(l, Range(UrlTexts(r.ret.val))) }
       ELSE { [lb |-> l, endpoints |-> eps, keydb |-> r.keydb] }

\* `now - self._last_discovery_refresh > self._health_check_interval`,
\* line 206 (before the lock is taken)
RefreshDue(n, d) == n - d.last > d.interval

\* Mutant: no second look under the lock
RefreshStillDueAlways(n, d) == TRUE

\* The same condition at line 208 (under the lock)
RefreshStillDue(n, d) == n - d.last > d.interval

\* One pass of the loop of _request on endpoint sel.ep with retry_max = 0
\* (lines 289-351): the balancers and breakers it can leave
AttemptOutcomes(l, sel, b, t) ==
    LET l1 == IncrementConnections([l EXCEPT !.current_index = sel.index],
                                   sel.ep, t)
    IN IF CBRejects(b, t)
       THEN { [lb |-> DecrementConnections(l1, sel.ep), cb |-> b] }
       ELSE { [lb |-> DecrementConnections(MarkHealthy(l1, sel.ep), sel.ep),
               cb |-> CBOnSuccess(CBAdmit(b, t))],
              [lb |-> DecrementConnections(MarkUnhealthy(l1, sel.ep), sel.ep),
               cb |-> CBOnFailure(CBAdmit(b, t), t)] }

\* What SpecDiscovery leaves alone
dcRest == <<cbth, cbobs, rpVars, net, rq, cobs, lbobs, sr, srobs>>

\* The constructor up to line 138: the fields are set, the registry and the
\* balancer are built (base_url = None without service discovery raises
\* ValueError at line 82)
InitDiscovery ==
    /\ now = ConstructionTime
    /\ \E base \in BaseUrlArgs, use \in BOOLEAN,
          strategy \in DiscStrategies, interval \in CheckIntervals :
          /\ base = <<>> => use
          /\ lb = LoadBalancerInit(base, strategy)
          /\ disc = [use |-> use, interval |-> interval, last |-> 0,
                     lock |-> "free", endpoints |-> base, base |-> base,
                     pc |-> IF use THEN "init_refresh" ELSE "init_health"]
    /\ th = [t \in Threads |-> [pc |-> "idle", now |-> 0]]
    /\ dobs = NoDiscObs
    /\ sr = ServiceRegistryInit(DefaultCacheTtl)
    /\ keydb = <<>>
    /\ consul \in [Services -> [Range(Hosts) -> {"down", "plain"}]]
    /\ srobs = NoRegistryObs
    /\ BreakerCallerUnused(1, ClockStep)
    /\ RetryUnused
    /\ net = <<>>
    /\ rq = NoRequest
    /\ cobs = [requests |-> 0, http |-> 0, pre |-> cb]
    /\ lbobs = NoLBObs

\* Real time passes; the cache server drops the entries that expire
DiscTick ==
    /\ now < ConstructionTime + ClockStep * MaxDiscTicks
    /\ now' = now + ClockStep
    /\ keydb' = [k \in {x \in DOMAIN keydb : keydb[x].exp > now + ClockStep}
                   |-> keydb[k]]
    /\ UNCHANGED <<cb, lb, consul, dcVars, dcRest>>

\* Lines 141-145 of the constructor: the first refresh, and ValueError when
\* there is no endpoint
ConstructRefresh ==
    /\ disc.pc = "init_refresh"
    /\ \E dirok \in BOOLEAN :
          \E r \in RefreshEndpoints(lb, disc.endpoints, keydb, consul, now,
                                    sr.cache_ttl, dirok) :
             /\ lb' = r.lb
             /\ keydb' = r.keydb
             /\ disc' = [disc EXCEPT !.endpoints = r.endpoints,
                                     !.pc = IF r.endpoints = <<>>
                                            THEN "failed" ELSE "init_health"]
    /\ dobs' = Refreshed(dobs, "init", None, now)
    /\ UNCHANGED <<now, cb, consul, th, dcRest>>

\* Thread t enters _check_health (the constructor at line 176, or any thread
\* once the client is constructed) and passes lines 203-206
CheckBegin(t) ==
    /\ th[t].pc = "idle"
    /\ \/ disc.pc = "init_health" /\ t = Constructor
       \/ disc.pc = "ready" /\ dobs.checks < MaxChecks
    /\ th' = [th EXCEPT ![t] =
                 IF disc.use /\ RefreshDue(now, disc)
                 THEN [pc |-> "lock", now |-> now]
                 ELSE [pc |-> "probe", now |-> IF disc.use THEN now ELSE @.now]]
    /\ dobs' = IF disc.pc = "ready" THEN [dobs EXCEPT !.checks = @ + 1] ELSE dobs
    /\ UNCHANGED <<now, cb, lb, keydb, consul, disc, dcRest>>

\* Thread t takes the lock and looks again: lines 207-208
CheckLock(t) ==
    /\ th[t].pc = "lock"
    /\ disc.lock = "free"
    /\ IF RefreshStillDue(th[t].now, disc)
       THEN /\ th' = [th EXCEPT ![t].pc = "refresh"]
            /\ disc' = [disc EXCEPT !.lock = t]
            /\ dobs' = dobs
       ELSE /\ th' = [th EXCEPT ![t].pc = "probe"]
            /\ disc' = disc
            /\ dobs' = [dobs EXCEPT !.skipped = TRUE]
    /\ UNCHANGED <<now, cb, lb, keydb, consul, dcRest>>

\* Thread t refreshes, records its `now` and releases the lock: lines 209-210
CheckRefresh(t) ==
    /\ th[t].pc = "refresh"
    /\ \E dirok \in BOOLEAN :
          \E r \in RefreshEndpoints(lb, disc.endpoints, keydb, consul, now,
                                    sr.cache_ttl, dirok) :
             /\ lb' = r.lb
             /\ keydb' = r.keydb
             /\ disc' = [disc EXCEPT !.endpoints = r.endpoints,
                                     !.last = th[t].now, !.lock = "free"]
    /\ th' = [th EXCEPT ![t].pc = "probe"]
    /\ dobs' = Refreshed(dobs, "check", th[t].now, now)
    /\ UNCHANGED <<now, cb, consul, dcRest>>

\* Thread t selects an endpoint, calls GET /health on it and marks it:
\* lines 213-239; the constructor swallows what this raises (lines 175-178)
CheckProbe(t) ==
    /\ th[t].pc = "probe"
    /\ \E sel \in SelectEndpoint(lb), h \in HealthResults :
          /\ lb' = IF sel.ep = KeyErrorRaised THEN lb ELSE Probe(lb, sel, h)
          /\ dobs' = IF disc.pc = "init_health"
                     THEN [dobs EXCEPT !.health = IF NotEndpoint(sel.ep)
                                                  THEN "none" ELSE h,
                                       !.checked = sel.ep]
                     ELSE dobs
    /\ th' = [th EXCEPT ![t] = [pc |-> "idle", now |-> 0]]
    /\ disc' = IF disc.pc = "init_health" THEN [disc EXCEPT !.pc = "ready"] ELSE disc
    /\ UNCHANGED <<now, cb, keydb, consul, dcRest>>

\* _request with max_failover_attempts = 1 and retry_max = 0: lines 273-351.
\* Without an endpoint it refreshes and selects again (lines 277-280), and
\* raises when there is still none.  o: the observations before the call,
\* with the call counted or not.
Request(o) ==
    /\ disc.pc = "ready"
    /\ \E sel \in SelectEndpoint(lb) :
          /\ sel.ep # KeyErrorRaised
          /\ IF ~NotEndpoint(sel.ep)
             THEN /\ \E a \in AttemptOutcomes(lb, sel, cb, now) :
                        lb' = a.lb /\ cb' = a.cb
                  /\ dobs' = [o EXCEPT !.raised = "none"]
                  /\ UNCHANGED <<keydb, disc>>
             ELSE IF ~disc.use
             THEN /\ dobs' = [o EXCEPT !.raised = NoHealthyEndpoints]
                  /\ lb' = [lb EXCEPT !.current_index = sel.index]
                  /\ UNCHANGED <<cb, keydb, disc>>
             ELSE \E dirok \in BOOLEAN :
                    \E r \in RefreshEndpoints(lb, disc.endpoints, keydb, consul,
                                              now, sr.cache_ttl, dirok) :
                       /\ keydb' = r.keydb
                       /\ disc' = [disc EXCEPT !.endpoints = r.endpoints]
                       /\ \E sel2 \in SelectEndpoint(r.lb) :
                             IF NotEndpoint(sel2.ep)
                             THEN /\ lb' = [r.lb EXCEPT !.current_index = sel2.index]
                                  /\ cb' = cb
                                  /\ dobs' = [Refreshed(o, "request", None, now)
                                               EXCEPT !.raised = NoHealthyEndpoints]
                             ELSE /\ \E a \in AttemptOutcomes(r.lb, sel2, cb, now) :
                                        lb' = a.lb /\ cb' = a.cb
                                  /\ dobs' = [Refreshed(o, "request", None, now)
                                               EXCEPT !.raised = "none"]
    /\ UNCHANGED <<now, consul, th, dcRest>>

\* A caller issues one of the _request calls counted
DiscRequest ==
    /\ dobs.requests < MaxDiscRequests
    /\ Request([dobs EXCEPT !.requests = @ + 1])

\* An instance of the module registers or deregisters
DiscDirectoryChanges ==
    /\ dobs.changes < MaxDirChanges
    /\ \E h \in Range(Hosts), st \in {"down", "plain"} :
          /\ consul[ModuleName][h] # st
          /\ consul' = [consul EXCEPT ![ModuleName][h] = st]
    /\ dobs' = [dobs EXCEPT !.changes = @ + 1]
    /\ UNCHANGED <<now, cb, lb, keydb, disc, th, dcRest>>

NextDiscovery ==
    \/ DiscTick
    \/ ConstructRefresh
    \/ \E t \in Threads : CheckBegin(t)
    \/ \E t \in Threads : CheckLock(t)
    \/ \E t \in Threads : CheckRefresh(t)
    \/ \E t \in Threads : CheckProbe(t)
    \/ DiscRequest
    \/ DiscDirectoryChanges

SpecDiscovery == InitDiscovery /\ [][NextDiscovery]_vars

(* SpecRefresh: the client as the repository runs it.  Nothing calls        *)
(* _check_health but the constructor; after construction a caller keeps     *)
(* issuing _request calls, for ever, while the directory changes and time   *)
(* passes.                                                                  *)

\* The steps of the _check_health call of the constructor (line 176)
ConstructorChecks ==
    /\ disc.pc = "init_health"
    /\ \/ CheckBegin(Constructor)
       \/ CheckLock(Constructor)
       \/ CheckRefresh(Constructor)
       \/ CheckProbe(Constructor)

\* The caller issues one more _request
KeepRequesting == Request([dobs EXCEPT !.turn = 1 - @])

NextRefresh ==
    \/ DiscTick
    \/ ConstructRefresh
    \/ ConstructorChecks
    \/ KeepRequesting
    \/ DiscDirectoryChanges

\* The constructor runs to its end, the clock goes on as far as it is
\* modelled, and the caller never stops issuing requests
SpecRefresh ==
    /\ InitDiscovery
    /\ [][NextRefresh]_vars
    /\ WF_vars(ConstructRefresh)
    /\ WF_vars(ConstructorChecks)
    /\ WF_vars(DiscTick)
    /\ WF_vars(KeepRequesting)

----------------------------------------------------------------------------
(* Claims about CircuitBreaker, checked under SpecCB *)

\* A call() begins in this step
CBCallBegins == cbobs'.calls = cbobs.calls + 1
\* func returns / raises in this step
CBFuncReturns == cbth.pc = "work" /\ cbth'.out = "returned"
CBFuncRaises == cbth.pc = "work" /\ cbth'.out = "raised"
\* The last finished call ran func, which raised / returned
LastCallFailed == cbth.pc = "idle" /\ cbth.out = "raised" /\ cbth.val \in WorkErrors
LastCallReturned == cbth.pc = "idle" /\ cbth.out = "returned"

\* C1: with N = max(1, failure_threshold argument), a failing call that found
\* the breaker CLOSED leaves it OPEN exactly when it is the N-th failure since
\* the last success (or construction, or reset()); after fewer than N failures
\* the breaker is CLOSED with failure_count equal to the number of failures;
\* a success while CLOSED leaves failure_count 0.
C1_OpensOnNthFailure ==
    LET N == IF cbobs.arg >= 1 THEN cbobs.arg ELSE 1 IN
    /\ (LastCallFailed /\ cbobs.pre.state = CLOSED) =>
          /\ cb.state = OPEN <=> cbobs.streak = N
          /\ cbobs.streak < N => (cb.state = CLOSED /\ cb.failure_count = cbobs.streak)
    /\ (LastCallReturned /\ cbobs.pre.state = CLOSED) =>
          (cb.state = CLOSED /\ cb.failure_count = 0)

\* C1 witness: the third failure in a row opened a breaker configured with 3.
C1_Witness ==
    /\ LastCallFailed /\ cbobs.pre.state = CLOSED /\ cb.state = OPEN
    /\ cbobs.arg = 3 /\ cbobs.streak = 3

\* C2: a call() begun while the breaker is OPEN and less than
\* recovery_timeout_sec after last_failure_time raises the circuit-open error,
\* does not invoke func, and leaves the breaker unchanged.
C2_OpenFailsFast ==
    [][ ( /\ CBCallBegins
          /\ cb.state = OPEN
          /\ now - cb.last_failure_time < cb.recovery_timeout_sec )
        => ( /\ cbth'.pc = "idle"
             /\ cbth'.out = "raised"
             /\ cbth'.val = CircuitOpenError
             /\ cbobs'.invoked = cbobs.invoked
             /\ cb' = cb ) ]_vars

\* C2 witness: a call was rejected one second after the failure that opened
\* the breaker (recovery_timeout_sec = 2).
C2_Witness ==
    /\ cbth.pc = "idle" /\ cbth.out = "raised" /\ cbth.val = CircuitOpenError
    /\ cbobs.pre.state = OPEN
    /\ cbobs.at = cbobs.pre.last_failure_time + 1
    /\ cb.recovery_timeout_sec = 2

\* C3: a call() begun while the breaker is OPEN and at least
\* recovery_timeout_sec after last_failure_time is admitted: the breaker is
\* HALF_OPEN with failure_count 0 and func is invoked; when func then returns,
\* the breaker is CLOSED with failure_count 0 and last_failure_time None, and
\* call() returns what func returned.
C3_HalfOpenRecovers ==
    [][ /\ ( /\ CBCallBegins
             /\ cb.state = OPEN
             /\ now - cb.last_failure_time >= cb.recovery_timeout_sec )
           => ( /\ cbth'.pc = "work"
                /\ cbobs'.invoked = cbobs.invoked + 1
                /\ cb'.state = HALF_OPEN
                /\ cb'.failure_count = 0 )
        /\ (CBFuncReturns /\ cb.state = HALF_OPEN)
           => ( /\ cb'.state = CLOSED
                /\ cb'.failure_count = 0
                /\ cb'.last_failure_time = None
                /\ cbth'.val = cbobs'.work ) ]_vars

\* C3 witness: a call that found the breaker OPEN returned and closed it.
C3_Witness ==
    /\ LastCallReturned /\ cbobs.pre.state = OPEN
    /\ cbobs.pre.failure_count = 3
    /\ cb.state = CLOSED

\* C4: when func raises in the call admitted in HALF_OPEN, the breaker is OPEN
\* after that one failure whatever failure_threshold is, last_failure_time is
\* the time of this failure, call() raises func's exception, and a call at any
\* time less than recovery_timeout_sec later is rejected.
C4_HalfOpenFailureReopens ==
    [][ (CBFuncRaises /\ cb.state = HALF_OPEN)
        => ( /\ cb'.state = OPEN
             /\ cb'.last_failure_time = now
             /\ cbth'.val = cbobs'.work
             /\ cbth'.val \in WorkErrors
             /\ \A u \in now..(MaxTime + MaxRecoveryArg) :
                   (u - now < cb.recovery_timeout_sec) => CBRejects(cb', u) ) ]_vars

\* C4 witness: with failure_threshold 3 a single failure of the trial call
\* re-opened the breaker (failure_count 1).
C4_Witness ==
    /\ LastCallFailed /\ cbobs.pre.state = OPEN
    /\ cb.state = OPEN /\ cb.failure_threshold = 3 /\ cb.failure_count = 1
    /\ cb.last_failure_time > cbobs.pre.last_failure_time

----------------------------------------------------------------------------
(* Claims about RetryPolicy, checked under SpecRetry *)

\* An execute() has finished by returning / by raising
ExecuteReturned == rx.pc = "idle" /\ rx.out.tag = "ret"
ExecuteRaised == rx.pc = "idle" /\ rx.out.tag = "exc"
\* R of the claims: the max_retries argument, negative clamped to 0
EffectiveRetries == IF robs.arg < 0 THEN 0 ELSE robs.arg

\* C5: with the default should_retry, func is invoked until its first success
\* or R + 1 invocations: an execute that returned invoked func k <= R + 1
\* times, the first k - 1 raised, and it returned the k-th invocation's value;
\* an execute that raised invoked func exactly R + 1 times, all raised, and it
\* raised the exception of invocation R + 1.
C5_AttemptsAndLastError ==
    rx.fn = "None" =>
        /\ robs.invoked <= EffectiveRetries + 1
        /\ ExecuteReturned =>
              /\ Len(robs.excs) = robs.invoked - 1
              /\ rx.out.id = robs.invoked
        /\ ExecuteRaised =>
              /\ robs.invoked = EffectiveRetries + 1
              /\ Len(robs.excs) = EffectiveRetries + 1
              /\ rx.out = robs.excs[EffectiveRetries + 1]
              /\ rx.out.id = EffectiveRetries + 1
        /\ (rx.pc = "call" /\ robs.executes > 0) => Len(robs.excs) = robs.invoked

\* C5 witnesses: permanently failing func, max_retries 3, four invocations,
\* the fourth exception raised.
C5_Witness ==
    /\ rx.fn = "None" /\ ExecuteRaised
    /\ robs.arg = 3 /\ robs.invoked = 4 /\ rx.out.id = 4

\* C6: an exception func raised for which should_retry returns false is the
\* last invocation of the execute: it is re-raised by execute, nothing was
\* slept after it, and func was not invoked again (so a non-retryable first
\* failure means exactly one invocation and no sleep), whatever max_retries.
C6_NonRetryableRaisesAtOnce ==
    \A i \in 1..Len(robs.excs) :
        (rx.fn # "None" /\ ~ShouldRetryReturns(rx.fn, robs.excs[i])) =>
            /\ i = Len(robs.excs)
            /\ robs.invoked = i
            /\ Len(robs.sleeps) = i - 1
            /\ ExecuteRaised
            /\ rx.out = robs.excs[i]

\* C6 witness: max_retries 3, should_retry false for the first failure, one
\* invocation, no sleep.
C6_Witness ==
    /\ ExecuteRaised /\ rx.fn = "never" /\ rp.max_retries = 3
    /\ robs.invoked = 1 /\ robs.sleeps = <<>>

\* initial_delay * multiplier^k
RECURSIVE Power(_, _)
Power(m, k) == IF k = 0 THEN 1 ELSE m * Power(m, k - 1)

\* C7: permanently failing retryable work with max_retries = R sleeps exactly
\* R times, and the k-th sleep lasts
\* min(initial_delay * multiplier^(k-1), max_delay).
C7_BackoffSequence ==
    (ExecuteRaised /\ robs.invoked = rp.max_retries + 1) =>
        /\ Len(robs.sleeps) = rp.max_retries
        /\ \A k \in 1..Len(robs.sleeps) :
              robs.sleeps[k] =
                  Min(rp.initial_delay * Power(rp.backoff_multiplier, k - 1), rp.max_delay)

----------------------------------------------------------------------------
(* Claims about ModuleAPIClient, checked under SpecClient *)

\* A _request() has finished and nothing but time has passed since
RequestDone == rq.pc = "idle" /\ cobs.requests > 0
\* A _request() returns or raises in this step
RequestEnding == rq.pc # "idle" /\ rq'.pc = "idle"
\* The failover scenario: endpoints [E1, E2] under round_robin, E1 timing out
\* at every call and E2 succeeding at every call
FailoverScenario ==
    /\ lb.endpoints = <<"E1", "E2">>
    /\ lb.strategy = ROUND_ROBIN
    /\ net["E1"] = "timeout"
    /\ net["E2"] = "ok"
\* A request with max_failover_attempts = 2 ends in this step, returning
\* E2's result and leaving E1 marked unhealthy
ReturnsE2 ==
    /\ rq'.out.tag = "ret"
    /\ rq'.out.what = "E2"
    /\ lb'.health_status["E1"] = FALSE

\* C8 as stated: in the failover scenario every request with
\* max_failover_attempts = 2 returns E2's result and leaves E1 marked
\* unhealthy, for every failure_threshold >= 1 and every retry count.
C8_FailoverAnyThreshold ==
    [][ (FailoverScenario /\ RequestEnding /\ rq.max_failover_attempts = 2)
        => ReturnsE2 ]_vars

\* C8 amended: the same for every failure_threshold >= 2 and every retry
\* count (with failure_threshold = 1 the failure on E1 opens the breaker
\* shared by both endpoints and the attempt on E2 is rejected).
C8_FailoverThresholdAtLeast2 ==
    [][ ( /\ FailoverScenario /\ RequestEnding /\ rq.max_failover_attempts = 2
          /\ cb.failure_threshold >= 2 )
        => ReturnsE2 ]_vars

\* C8 witness: a request whose first attempt failed on E1 (after one retry)
\* returned E2's result.
C8_Witness ==
    /\ FailoverScenario /\ RequestDone
    /\ cb.failure_threshold = 2 /\ rp.max_retries = 1
    /\ rq.out.tag = "ret" /\ rq.out.what = "E2"
    /\ cobs.http = 3
    /\ lb.health_status["E1"] = FALSE

\* C9: with a single endpoint and failure_threshold = 1, a request that raised
\* leaves the breaker OPEN; a request made while the breaker is OPEN and
\* finished less than recovery_timeout_sec after the recorded failure raised
\* the circuit-open error, issued no HTTP call and left the breaker as it was.
C9_SingleEndpointOpens ==
    (Len(lb.endpoints) = 1 /\ cb.failure_threshold = 1 /\ RequestDone) =>
        /\ rq.out.tag = "exc" => cb.state = OPEN
        /\ ( /\ cobs.pre.state = OPEN
             /\ now - cobs.pre.last_failure_time < cb.recovery_timeout_sec )
           => ( /\ rq.out = CircuitOpen
                /\ cobs.http = 0
                /\ cb = cobs.pre )

\* C9 witness: the second request found the breaker OPEN and was rejected
\* without any HTTP call.
C9_Witness ==
    /\ Len(lb.endpoints) = 1 /\ cb.failure_threshold = 1 /\ RequestDone
    /\ cobs.requests = 2
    /\ cobs.pre.state = OPEN
    /\ now - cobs.pre.last_failure_time < cb.recovery_timeout_sec
    /\ rq.out = CircuitOpen /\ cobs.http = 0

\* An HTTP call of the current attempt fails in this step and execute()
\* retries / the attempt ends with an exception / the attempt ends returning
HttpRetried == rq.pc = "http" /\ rq'.pc = "http" /\ cobs'.http = cobs.http + 1
AttemptRaised ==
    /\ rq.pc = "http"
    /\ rq'.pc = "select" \/ (rq'.pc = "idle" /\ rq'.out.tag = "exc")
AttemptReturned == rq.pc = "http" /\ rq'.pc = "idle" /\ rq'.out.tag = "ret"

\* C10: the breaker's record does not change while execute() retries failed
\* HTTP calls; when the attempt ends with an exception (after all
\* max_retries + 1 invocations failed, or after a non-retryable failure)
\* failure_count goes up by exactly 1; when it ends with a result, after
\* whatever number of failed retries, failure_count is 0 and the breaker is
\* CLOSED.
C10_RetryInsideBreaker ==
    [][ /\ HttpRetried => cb' = cb
        /\ AttemptRaised => cb'.failure_count = cb.failure_count + 1
        /\ AttemptReturned => (cb'.failure_count = 0 /\ cb'.state = CLOSED) ]_vars

\* C10 witness: the first attempt of a request made max_retries + 1 = 2 failing
\* HTTP calls and the breaker counts one failure.
C10_Witness ==
    /\ rq.pc = "select" /\ rq.attempt = 1
    /\ rp.max_retries = 1 /\ cobs.http = 2
    /\ cb.failure_threshold = 2 /\ cb.failure_count = 1
    /\ cobs.pre.failure_count = 0

\* should_retry was given and returns false for exception e
Refused(fn, e) == fn # "None" /\ ~ShouldRetryReturns(fn, e)
\* An HTTP call is issued in this step
HttpIssued == cobs'.http = cobs.http + 1
\* The exception with which the attempt ends in this step
AttemptException == IF rq'.pc = "idle" THEN rq'.out ELSE rq'.last_exception
\* The HTTP call of this step raises an exception that should_retry refuses
\* and the attempt ends with it
RefusedRaised ==
    /\ AttemptRaised
    /\ AttemptException.id = robs.invoked + 1
    /\ Refused(rq.should_retry, AttemptException)
\* An earlier attempt of the current request ended with an HTTP error that
\* should_retry refuses
RefusedEarlier ==
    /\ rq.pc = "http"
    /\ rq.last_exception.tag = "exc"
    /\ rq.last_exception.id > 0
    /\ Refused(rq.should_retry, rq.last_exception)

\* C11 as stated: after the HTTP call that raised an error should_retry
\* refuses, the request ends with that error, no further HTTP call is issued
\* for it (no retry, no further attempt), and the breaker counted the failure.
C11_RefusedEndsRequest ==
    [][ /\ RefusedRaised => ( /\ rq'.pc = "idle" /\ rq'.out = AttemptException
                              /\ cb'.failure_count = cb.failure_count + 1 )
        /\ ~(HttpIssued /\ RefusedEarlier) ]_vars

\* C11 amended: an error should_retry refuses is never retried by execute();
\* the attempt ends with it and the breaker counts one failure; the request
\* ends with it exactly when that was the last failover attempt or the error
\* is neither a RuntimeError nor a RequestException, and otherwise goes on to
\* its next failover attempt.
C11_RefusedEndsAttempt ==
    [][ /\ HttpRetried => ~Refused(rq.should_retry, robs'.excs[Len(robs'.excs)])
        /\ RefusedRaised =>
              /\ cb'.failure_count = cb.failure_count + 1
              /\ cb'.last_failure_time = now
              /\ rq'.pc = "idle" <=>
                    ( \/ rq.attempt >= rq.max_failover_attempts - 1
                      \/ ~CaughtByRequest(AttemptException) )
              /\ rq'.pc = "idle" => rq'.out = AttemptException
              /\ rq'.pc = "select" => rq'.attempt = rq.attempt + 1 ]_vars

\* C11 witness: with max_retries = 1 the first HTTP call of a request raised
\* an error that should_retry refuses; it was not retried, the breaker counted
\* it, and the request is about to make its second failover attempt.
C11_Witness ==
    /\ rq.pc = "select" /\ rq.attempt = 1 /\ rq.max_failover_attempts = 2
    /\ rq.should_retry = "never" /\ rp.max_retries = 1
    /\ rq.last_exception.tag = "exc" /\ rq.last_exception.id = 1
    /\ cobs.http = 1
    /\ cb.failure_count = cobs.pre.failure_count + 1

\* The for loop of _request makes a pass in this step
AttemptStep == rq.pc = "select" /\ rq' # rq
\* The breaker is OPEN and less than recovery_timeout_sec has passed since
\* the failure it recorded last
OpenAndCooling ==
    /\ cb.state = OPEN
    /\ now - cb.last_failure_time < cb.recovery_timeout_sec

\* C12: the client has one breaker for all its endpoints.  Every attempt that
\* ends with an exception of the HTTP call, whichever endpoint it was made
\* on, adds 1 to the same failure_count; the breaker is never CLOSED with
\* failure_threshold failures counted; while it is OPEN and the recovery
\* timeout has not elapsed every attempt, on whichever endpoint was
\* selected, is rejected with the circuit-open error without an HTTP call and
\* without changing the breaker; once the timeout has elapsed the next
\* attempt is let through as the probe.
C12_OneBreakerForAllEndpoints ==
    [][ /\ AttemptRaised => cb'.failure_count = cb.failure_count + 1
        /\ cb.state = CLOSED => cb.failure_count < cb.failure_threshold
        /\ (AttemptStep /\ OpenAndCooling) =>
              /\ rq'.pc # "http"
              /\ AttemptException = CircuitOpen
              /\ ~HttpIssued
              /\ cb' = cb
        /\ (AttemptStep /\ cb.state = OPEN /\ ~OpenAndCooling) =>
              /\ rq'.pc = "http"
              /\ cb'.state = HALF_OPEN ]_vars

\* C12 witness: E1 always times out and E2 always answers; two attempts failed
\* on E1 and opened the breaker (failure_threshold = 2); the next request
\* selected E2, which never failed, and was rejected with the circuit-open
\* error without an HTTP call.
C12_Witness ==
    /\ Len(lb.endpoints) = 2 /\ net["E1"] = "timeout" /\ net["E2"] = "ok"
    /\ cb.failure_threshold = 2 /\ cb.failure_count = 2 /\ cb.state = OPEN
    /\ RequestDone /\ cobs.requests = 2 /\ cobs.pre = cb
    /\ rq.endpoint = "E2" /\ rq.out = CircuitOpen
    /\ cobs.http = 0
    /\ lb.health_status["E2"] = TRUE

\* A failover attempt ends with an exception in this step: the breaker
\* rejected the call, or the wrapped call raised
AttemptFails ==
    \/ rq.pc = "select" /\ rq'.pc # "http" /\ rq' # rq
    \/ AttemptRaised
\* The in-flight count of endpoint ep in balancer l
Count(l, ep) == DictGet(l.connection_counts, ep, 0)

\* C25: when a failover attempt ends with an exception, the endpoint selected
\* for it is marked unhealthy and its in-flight count is what it was before
\* the attempt incremented it.
C25_FailedAttemptMarksAndDecrements ==
    [][ AttemptFails =>
          /\ DictGet(lb'.health_status, rq'.endpoint, TRUE) = FALSE
          /\ Count(lb', rq'.endpoint) =
                IF rq.pc = "select" THEN Count(lb, rq'.endpoint)
                ELSE Count(lb, rq'.endpoint) - 1 ]_vars

\* C37: whenever no request is in progress (request() has returned or
\* raised, whatever the exception), every endpoint's in-flight count is what
\* it was before the request: 0, as at construction.
C37_InFlightBalanced ==
    rq.pc = "idle" => \A ep \in Range(lb.endpoints) : Count(lb, ep) = 0

\* The position of a request in its loops: failover attempts made, and HTTP
\* calls made by the attempt in progress
Progress ==
    rq.attempt * (rp.max_retries + 2)
    + (IF rq.pc = "http" THEN 1 + robs.invoked ELSE 0)

\* C26: a request in progress has made fewer than max_failover_attempts
\* attempts, its attempt in progress fewer than max_retries + 1 HTTP calls,
\* and the request at most max_failover_attempts * (max_retries + 1) HTTP
\* calls; each of its steps ends it or moves it forward in its loops, so it
\* ends after a bounded number of steps; it ends with a result only when the
\* HTTP call of that step succeeded, and otherwise raises the exception of
\* the attempt that step ended: the one of its last HTTP call, or the
\* circuit-open error of the gate.
C26_RequestTerminates ==
    [][ /\ rq.pc # "idle" =>
              /\ rq.attempt < rq.max_failover_attempts
              /\ rq.pc = "http" => robs.invoked <= rp.max_retries
              /\ cobs.http <= rq.attempt * (rp.max_retries + 1) + robs.invoked
        /\ (rq.pc # "idle" /\ rq' # rq) =>
              \/ rq'.pc = "idle"
              \/ /\ Progress' > Progress
                 /\ Progress' < rq.max_failover_attempts * (rp.max_retries + 2)
        /\ RequestEnding =>
              /\ rq'.out.tag \in {"ret", "exc"}
              /\ cobs'.http <= rq.max_failover_attempts * (rp.max_retries + 1)
              /\ AttemptFails <=> rq'.out.tag = "exc"
              /\ rq'.out.tag = "exc" =>
                    IF rq.pc = "http"
                    THEN rq'.out.id = robs.invoked + 1
                    ELSE rq'.out = CircuitOpen
              /\ rq'.out.tag = "ret" =>
                    /\ rq.pc = "http" /\ HttpIssued
                    /\ rq'.out.what = rq.endpoint ]_vars

\* C26 witness: a request with max_failover_attempts = 2 and max_retries = 1
\* made its 4 HTTP calls, all failing, and raised the exception of the last.
C26_Witness ==
    /\ RequestDone
    /\ rp.max_retries = 1
    /\ cobs.http = 4
    /\ rq.out.tag = "exc" /\ rq.out.id = 2

----------------------------------------------------------------------------
(* Claims about LoadBalancer, checked under SpecLB *)

\* select_endpoint is called in this step and returns (or raises) lbobs'.ret
SelectCall == lbobs'.ret # "-" /\ now' = now
\* What self._health_status.get(ep, True) gives
IsHealthy(l, ep) == DictGet(l.health_status, ep, TRUE)

\* C13: under round_robin, as long as no call has changed the endpoint list
\* since construction, the k-th select_endpoint call returns the endpoint at
\* position (k-1) mod n of the list (lbobs.selects = k-1 calls were made
\* before this one).
C13_RoundRobinOrder ==
    [][ ( /\ SelectCall
          /\ lb.strategy = ROUND_ROBIN
          /\ lbobs.listcalls = "none"
          /\ lb.endpoints # <<>> )
        => lbobs'.ret = lb.endpoints[(lbobs.selects % Len(lb.endpoints)) + 1] ]_vars

\* C13 witness: the sixth selection over a list of three returned the third
\* entry.
C13_Witness ==
    /\ lb.strategy = ROUND_ROBIN /\ lbobs.listcalls = "none"
    /\ Len(lb.endpoints) = 3 /\ lb.endpoints[1] # lb.endpoints[2]
    /\ lbobs.selects = 6
    /\ lbobs.ret = lb.endpoints[3]

\* C14: under least_connections, on a balancer whose list was changed by
\* update_endpoints only, select_endpoint returns an endpoint of the current
\* list whose in-flight count is the minimum over the current endpoints.
C14_LeastConnectionsMinimum ==
    [][ ( /\ SelectCall
          /\ lb.strategy = LEAST_CONNECTIONS
          /\ lbobs.listcalls \in {"none", "update"}
          /\ lb.endpoints # <<>> )
        => /\ lbobs'.ret \in Range(lb.endpoints)
           /\ \A ep \in Range(lb.endpoints) :
                 /\ ep \in DOMAIN lb.connection_counts
                 /\ lb.connection_counts[lbobs'.ret] <= lb.connection_counts[ep] ]_vars

\* C15: under health_based, when some endpoint of the list is healthy,
\* select_endpoint returns the healthy endpoint at position
\* current_index mod h of the h healthy ones and leaves current_index at the
\* position after it (mod h), so the next selection over the same healthy
\* endpoints returns the next one in cyclic order.
C15_HealthBasedCycle ==
    [][ ( /\ SelectCall
          /\ lb.strategy = HEALTH_BASED
          /\ \E ep \in Range(lb.endpoints) : IsHealthy(lb, ep) )
        => LET H == SelectSeq(lb.endpoints, LAMBDA ep : IsHealthy(lb, ep))
               p == lb.current_index % Len(H)
           IN /\ lbobs'.ret = H[p + 1]
              /\ IsHealthy(lb, lbobs'.ret)
              /\ lb'.current_index = (p + 1) % Len(H) ]_vars

\* C15 witness: of the list [a, b, a] only b is healthy, and a selection
\* returned b.
C15_Witness ==
    /\ lb.strategy = HEALTH_BASED
    /\ lb.endpoints = <<"a", "b", "a">>
    /\ ~IsHealthy(lb, "a") /\ IsHealthy(lb, "b")
    /\ lbobs.ret = "b"

\* C16: under health_based, when no endpoint of a list of n >= 2 distinct
\* endpoints is healthy,
\* select_endpoint selects round-robin within the full list: it returns the
\* entry at current_index mod n and advances the index, so that n
\* consecutive selections return every endpoint.
C16_FallbackRoundRobin ==
    [][ ( /\ SelectCall
          /\ lb.strategy = HEALTH_BASED
          /\ Len(lb.endpoints) >= 2
          /\ Cardinality(Range(lb.endpoints)) = Len(lb.endpoints)
          /\ \A ep \in Range(lb.endpoints) : ~IsHealthy(lb, ep) )
        => LET n == Len(lb.endpoints)
           IN /\ lbobs'.ret = lb.endpoints[(lb.current_index % n) + 1]
              /\ lb'.current_index = (lb.current_index + 1) % n ]_vars

\* C17: an endpoint that update_endpoints drops is removed from the list and
\* from the health, connection-count and last-selection dicts, and
\* select_endpoint does not return it until it is added again.
C17_UpdateRemoves ==
    [][ /\ \A x \in lbobs'.gone \ lbobs.gone :
              /\ x \notin Range(lb'.endpoints)
              /\ x \notin DOMAIN lb'.health_status
              /\ x \notin DOMAIN lb'.connection_counts
              /\ x \notin DOMAIN lb'.last_selection_time
        /\ SelectCall => lbobs'.ret \notin lbobs.gone ]_vars

\* C18: after any calls, under every strategy, select_endpoint returns None
\* exactly when the endpoint list is empty and otherwise a member of the list.
C18_NoneIffEmpty ==
    [][ SelectCall =>
          /\ lbobs'.ret = NoEndpoint <=> lb.endpoints = <<>>
          /\ lb.endpoints # <<>> => lbobs'.ret \in Range(lb.endpoints) ]_vars

\* C19: every in-flight connection count is a natural number in every
\* reachable state (decrement_connections on a count of 0, or on an endpoint
\* without a count, leaves 0).
C19_CountsNonNegative ==
    \A ep \in DOMAIN lb.connection_counts : lb.connection_counts[ep] \in Nat

\* C19 witness: decrement_connections was called for an endpoint that had no
\* count (it was never in the list nor incremented) and left it the count 0.
C19_Witness ==
    \E ep \in DOMAIN lb.connection_counts :
        /\ ep \notin DOMAIN lb.last_selection_time
        /\ lb.connection_counts[ep] = 0

\* This step is update_endpoints(endpoints) with set(endpoints) = new
UpdateCall(new) ==
    /\ lb' \in UpdateEndpoints(lb, new)
    /\ lbobs' = LBObserve("update", new \ Range(lb.endpoints),
                                 Range(lb.endpoints) \ new)

\* The health flag, in-flight count and last-selection time of ep are the
\* same in l and l2
SameTracking(l, l2, ep) ==
    /\ (ep \in DOMAIN l.health_status) = (ep \in DOMAIN l2.health_status)
    /\ DictGet(l.health_status, ep, TRUE) = DictGet(l2.health_status, ep, TRUE)
    /\ (ep \in DOMAIN l.connection_counts) = (ep \in DOMAIN l2.connection_counts)
    /\ DictGet(l.connection_counts, ep, 0) = DictGet(l2.connection_counts, ep, 0)
    /\ (ep \in DOMAIN l.last_selection_time) = (ep \in DOMAIN l2.last_selection_time)
    /\ DictGet(l.last_selection_time, ep, 0) = DictGet(l2.last_selection_time, ep, 0)

\* C34: update_endpoints(new_list) leaves the tracking of every endpoint that
\* stays untouched, adds every new endpoint as healthy with in-flight count
\* 0, and leaves the set of new_list as the endpoint set.
C34_UpdateChangesOnlyTheDiff ==
    [][ \A new \in SUBSET LBEndpoints :
          UpdateCall(new) =>
            /\ \A ep \in Range(lb.endpoints) \cap new : SameTracking(lb, lb', ep)
            /\ \A ep \in new \ Range(lb.endpoints) :
                  /\ ep \in DOMAIN lb'.health_status
                  /\ lb'.health_status[ep] = TRUE
                  /\ ep \in DOMAIN lb'.connection_counts
                  /\ lb'.connection_counts[ep] = 0
            /\ Range(lb'.endpoints) = new ]_vars

\* C39: after any calls with any endpoint arguments, the keys of the health
\* dict and of the connection-count dict are exactly the endpoints of the
\* list.
C39_TrackingKeysAreEndpoints ==
    /\ DOMAIN lb.health_status = Range(lb.endpoints)
    /\ DOMAIN lb.connection_counts = Range(lb.endpoints)

----------------------------------------------------------------------------
(* Claims about ServiceRegistry, checked under SpecRegistry *)

\* get_healthy_service_urls or get_healthy_services is called in this step
LookupCall ==
    /\ srobs'.calls = srobs.calls + 1
    /\ srobs'.op \in {"urls", "instances"}

\* C20: cache hit.  When the cache holds, under the key of the lookup, the
\* JSON text of a non-empty list and the cache get returns it, the lookup
\* returns that list, does not query the directory, issues no cache set and
\* leaves the cache as it was.
C20_CacheHit ==
    [][ ( /\ LookupCall
          /\ srobs'.key \in DOMAIN keydb
          /\ srobs'.got = keydb[srobs'.key].val
          /\ srobs'.got.kind = "json"
          /\ srobs'.got.val # <<>> )
        => /\ srobs'.ret = [tag |-> "ret", val |-> keydb[srobs'.key].val.val]
           /\ srobs'.queried = 0
           /\ srobs'.sets = 0
           /\ keydb' = keydb ]_vars

\* C20 witness: a get_healthy_service_urls call returned the cached URL
\* without querying the directory, which at that time listed no healthy host.
C20_Witness ==
    /\ srobs.op = "urls"
    /\ srobs.got.kind = "json" /\ Len(srobs.got.val) = 1
    /\ srobs.ret = [tag |-> "ret", val |-> srobs.got.val]
    /\ srobs.queried = 0 /\ srobs.sets = 0
    /\ \A h \in Range(Hosts) : consul[srobs.key[2]][h] = "down"

\* The tag argument of the lookup that used cache key k
TagOfKey(k) == IF k[3] = "default" THEN "None" ELSE k[3]

\* What the directory reports now for the arguments of the call observed as o
DirectoryReports(o) ==
    IF o.op = "urls"
    THEN ConsulGetServiceUrls(consul, o.key[2], TagOfKey(o.key), o.protocol)
    ELSE ConsulGetHealthyServices(consul, o.key[2], TagOfKey(o.key))

\* The string the cache holds now under key k (None if absent or expired)
Stored(k) ==
    IF k \in DOMAIN keydb /\ now < keydb[k].exp THEN keydb[k].val ELSE NoString

\* C21: cache miss.  When the entry under the key of the lookup is absent,
\* empty, unparseable or the JSON text of an empty list, and the directory
\* answers, the lookup queries the directory once and returns its answer; it
\* issues a cache set if and only if the answer is non-empty, and the set
\* (when it goes through) stores the answer's JSON text under the same key
\* with expiry now + cache_ttl; otherwise the cache is left as it was.
C21_CacheMiss ==
    [][ ( /\ LookupCall
          /\ \/ Stored(srobs'.key).kind \in {"none", "empty", "text"}
             \/ Stored(srobs'.key) = JsonDumps(<<>>)
          /\ "directory" \notin srobs'.failed )
        => LET answer == DirectoryReports(srobs')
           IN /\ srobs'.queried = 1
              /\ srobs'.ret = [tag |-> "ret", val |-> answer]
              /\ srobs'.sets = (IF answer # <<>> THEN 1 ELSE 0)
              /\ keydb' = IF answer # <<>> /\ "set" \notin srobs'.failed
                          THEN DictSet(keydb, srobs'.key,
                                       [val |-> JsonDumps(answer),
                                        exp |-> now + sr.cache_ttl])
                          ELSE keydb ]_vars

\* C21 witness: a lookup found an unparseable entry, queried the directory
\* and replaced the entry by the non-empty answer with the configured TTL.
C21_Witness ==
    /\ srobs.op \in {"urls", "instances"}
    /\ srobs.got = Garbage
    /\ srobs.queried = 1 /\ srobs.sets = 1 /\ srobs.failed = {}
    /\ srobs.ret.tag = "ret" /\ srobs.ret.val # <<>>
    /\ srobs.key \in DOMAIN keydb
    /\ keydb[srobs.key] = [val |-> JsonDumps(srobs.ret.val),
                           exp |-> now + sr.cache_ttl]

\* The list l holds URLs of protocol p only
OfProtocol(l, p) == \A i \in 1..Len(l) : l[i][1] = p

\* C40: every list that get_healthy_service_urls(service, tag, protocol = p)
\* returns holds URLs of protocol p only, whatever lookups were made before.
C40_UrlsOfProtocolAsked ==
    [][ (LookupCall /\ srobs'.op = "urls" /\ srobs'.ret.tag = "ret")
        => OfProtocol(srobs'.ret.val, srobs'.protocol) ]_vars

\* C22 as stated: whatever the cache holds (URLs of the protocol asked for),
\* get_healthy_service_urls returns the list the directory reports now.
C22_AlwaysDirectoryList ==
    [][ ( /\ LookupCall
          /\ srobs'.op = "urls"
          /\ "directory" \notin srobs'.failed
          /\ OfProtocol(srobs'.got.val, srobs'.protocol) )
        => srobs'.ret = [tag |-> "ret", val |-> DirectoryReports(srobs')] ]_vars

\* C22 amended: get_healthy_service_urls returns the list the directory
\* reports now unless the cache get returned the JSON text of a non-empty
\* list, and then it returns that list, whatever the directory reports now.
C22_DirectoryListUnlessCached ==
    [][ ( /\ LookupCall
          /\ srobs'.op = "urls"
          /\ "directory" \notin srobs'.failed )
        => srobs'.ret.val =
              IF srobs'.got.kind = "json" /\ srobs'.got.val # <<>>
              THEN srobs'.got.val
              ELSE DirectoryReports(srobs') ]_vars

\* C22 witness: get_healthy_service_urls returned a cached list of the
\* protocol asked for that is not the list the directory reports.
C22_Witness ==
    /\ srobs.op = "urls"
    /\ srobs.queried = 0
    /\ srobs.ret.tag = "ret"
    /\ srobs.ret.val = srobs.got.val
    /\ OfProtocol(srobs.ret.val, srobs.protocol)
    /\ srobs.ret.val # DirectoryReports(srobs)

\* An invalidate_cache call is made in this step
InvalidateCall ==
    srobs'.calls = srobs.calls + 1 /\ srobs'.op = "invalidate"

\* The two cache keys of the service/tag pair of the call observed as o
PairKeys(o) == { <<"service", o.key[2], o.key[3], what>> :
                   what \in {"urls", "instances"} }

\* C23: invalidate_cache(service, tag) removes the :urls and the :instances
\* entry of the pair (those whose delete went through) and changes no other
\* entry; and a lookup for the pair that directly follows an invalidate_cache
\* whose deletes went through queries the directory.
C23_InvalidateDeletesBoth ==
    [][ /\ InvalidateCall
           => LET kept == { k \in DOMAIN keydb :
                             \/ k \notin PairKeys(srobs')
                             \/ k[4] = "urls" /\ "delete_urls" \in srobs'.failed
                             \/ k[4] = "instances"
                                /\ "delete_instances" \in srobs'.failed }
              IN /\ DOMAIN keydb' = kept
                 /\ \A k \in kept : keydb'[k] = keydb[k]
        /\ ( /\ srobs.op = "invalidate" /\ srobs.failed = {}
             /\ LookupCall
             /\ srobs'.key \in PairKeys(srobs) )
           => srobs'.queried = 1 ]_vars

\* C23 witness: an invalidate_cache removed both entries of a pair.
C23_Witness ==
    /\ srobs.op = "invalidate"
    /\ srobs.failed = {}
    /\ srobs.deleted = PairKeys(srobs)
    /\ DOMAIN keydb \cap PairKeys(srobs) = {}

\* C24: failure semantics.  A lookup in which the directory raised raises
\* that error, issues no cache set and leaves the cache as it was.  A lookup
\* whose cache get raised goes on as a miss: it queries the directory and, if
\* the directory answers, returns the answer.  A lookup whose cache set raised
\* returns the directory's answer and leaves the cache as it was.
C24_FailureSemantics ==
    [][ LookupCall
        => /\ "directory" \in srobs'.failed
              => /\ srobs'.ret = DirectoryError
                 /\ srobs'.sets = 0
                 /\ keydb' = keydb
           /\ "get" \in srobs'.failed
              => /\ srobs'.got = NoString
                 /\ srobs'.queried = 1
                 /\ "directory" \notin srobs'.failed
                    => srobs'.ret = [tag |-> "ret", val |-> DirectoryReports(srobs')]
           /\ "set" \in srobs'.failed
              => /\ srobs'.ret = [tag |-> "ret", val |-> DirectoryReports(srobs')]
                 /\ keydb' = keydb ]_vars

\* C24 witness: the cache held a list under the key, the get and the set both
\* raised, and the lookup returned the directory's non-empty answer.
C24_Witness ==
    /\ srobs.op \in {"urls", "instances"}
    /\ srobs.failed = {"get", "set"}
    /\ Stored(srobs.key).kind = "json" /\ Stored(srobs.key).val # <<>>
    /\ srobs.queried = 1
    /\ srobs.ret = [tag |-> "ret", val |-> DirectoryReports(srobs)]
    /\ srobs.ret.val # <<>>

----------------------------------------------------------------------------
(* Claims about service discovery and health checks, checked under         *)
(* SpecDiscovery *)

\* The client refreshes its endpoints from the registry in this step
RefreshStep == dobs'.flip # dobs.flip

\* C27 as stated: any two refreshes made by the client, those of the
\* constructor included, are at least health_check_interval_sec apart.
C27_RefreshesIntervalApart ==
    [][ (RefreshStep /\ dobs.refresh_by # "none")
        => now - dobs.refresh_at >= disc.interval ]_vars

\* C27 amended: the refreshes made by _check_health are made one at a time,
\* under the lock, and a _check_health refreshes only if it started more
\* than health_check_interval_sec after the start of the last _check_health
\* that refreshed; so of the health checks started within one interval, at
\* most one refreshes.
C27_HealthChecksThrottled ==
    [][ /\ \A t \in Threads : th[t].pc = "refresh" <=> disc.lock = t
        /\ (RefreshStep /\ dobs'.refresh_by = "check" /\ dobs.started # None)
           => dobs'.started - dobs.started > disc.interval ]_vars

\* C27 witness: after construction two threads started a health check when a
\* refresh was due; one refreshed, the other found under the lock that the
\* refresh was no longer due.
C27_Witness ==
    /\ disc.pc = "ready"
    /\ dobs.checks = 2
    /\ dobs.refresh_by = "check"
    /\ dobs.started > ConstructionTime
    /\ dobs.skipped

\* The construction-time health check ends in this step
ConstructionEnds == disc.pc = "init_health" /\ disc'.pc # "init_health"

\* C29: a constructor given a static base_url that has reached its health
\* check returns a client, whatever GET /health does; the endpoint checked is
\* one of the balancer's, the list is left as it was, and when GET /health
\* was issued the endpoint is left marked healthy if the server reported
\* ready = true and unhealthy if it reported ready = false or the call
\* raised.
C29_HealthCheckNeverFailsConstruction ==
    [][ (disc.pc = "init_health" /\ disc.base # <<>>)
        => /\ disc'.pc \in {"init_health", "ready"}
           /\ ConstructionEnds =>
                 /\ dobs'.checked \in Range(lb.endpoints)
                 /\ lb'.endpoints = lb.endpoints
                 /\ dobs'.health # "none" =>
                       DictGet(lb'.health_status, dobs'.checked, TRUE)
                          = (dobs'.health = "ready") ]_vars

\* C29 witness: a client constructed with a static URL and without service
\* discovery, whose GET /health raised, exists and has the URL marked
\* unhealthy.
C29_Witness ==
    /\ disc.pc = "ready"
    /\ disc.base = <<StaticUrl>> /\ ~disc.use
    /\ dobs.health = "error" /\ dobs.checked = StaticUrl
    /\ dobs.requests = 0 /\ dobs.checks = 0
    /\ lb.health_status[StaticUrl] = FALSE

----------------------------------------------------------------------------
(* Claims about the refresh of endpoints over time, checked under           *)
(* SpecRefresh *)

\* The URLs the registry's directory reports now for the module
RegistryList == UrlTexts(ConsulGetServiceUrls(consul, ModuleName, "None", "http"))

\* The client uses service discovery and is constructed; the directory has
\* changed for the last time and reports at least one URL; more than
\* health_check_interval_sec has passed since the last refresh recorded, and
\* the cache holds nothing
SettledAndDue ==
    /\ disc.pc = "ready" /\ disc.use
    /\ dobs.changes = MaxDirChanges
    /\ RegistryList # <<>>
    /\ RefreshDue(now, disc)
    /\ keydb = <<>>

\* C28: once the directory has settled on a non-empty list (and a refresh is
\* due and the cache is empty), a client that keeps issuing requests, and
\* whose breaker does not stay open, eventually has that list as the
\* endpoint set of its balancer.
C28_EndpointsFollowRegistry ==
    []<>(cb.state = CLOSED)
    => (SettledAndDue ~> (Range(lb.endpoints) = Range(RegistryList)))

----------------------------------------------------------------------------
(* Threads sharing one ModuleAPIClient.  Each thread runs attempts of        *)
(* _request; the statements of increment_connections and                    *)
(* decrement_connections read the counter and write it back in two steps,   *)
(* and LoadBalancer takes no lock.  The module answers with well-formed     *)
(* JSON objects, so every attempt reaches its decrement_connections.        *)

SecondUrl == "http://s2"
ThreadEndpointArgs == {<<StaticUrl>>, <<StaticUrl, SecondUrl>>}
ThreadStrategies == {ROUND_ROBIN, LEAST_CONNECTIONS}
IdleThread == [pc |-> "idle", ep |-> NoEndpoint, read |-> 0, done |-> 0]

\* The threads that have completed increment_connections on ep and have not
\* completed decrement_connections
InFlight(ep) ==
    {t \in Threads : th[t].ep = ep
                     /\ th[t].pc \in {"call", "dec_read", "dec_write"}}

\* self._connection_counts[endpoint] = <value read> + 1
\* self._last_selection_time[endpoint] = time.time()
WriteIncrement(l, ep, read, t) ==
    [l EXCEPT !.connection_counts = DictSet(@, ep, read + 1),
              !.last_selection_time = DictSet(@, ep, t)]

\* self._connection_counts[endpoint] = max(0, <value read> - 1)
WriteDecrement(l, ep, read) ==
    [l EXCEPT !.connection_counts = DictSet(@, ep, Max(0, read - 1))]

\* What SpecThreads leaves alone
thRest == <<now, cbth, cbobs, rpVars, net, rq, cobs, lbobs, srVars, disc, dobs>>

InitThreads ==
    /\ now = 0
    /\ \E eps \in ThreadEndpointArgs, strategy \in ThreadStrategies :
          lb = LoadBalancerInit(eps, strategy)
    /\ th = [t \in Threads |-> IdleThread]
    /\ disc = <<>> /\ dobs = <<>>
    /\ lbobs = NoLBObs
    /\ BreakerCallerUnused(1, 1)
    /\ RetryUnused
    /\ net = <<>>
    /\ rq = NoRequest
    /\ cobs = [requests |-> 0, http |-> 0, pre |-> cb]
    /\ RegistryUnused

\* endpoint = self._load_balancer.select_endpoint()
ThreadSelect(t) ==
    /\ th[t].pc = "idle"
    /\ th[t].done < MaxThreadAttempts
    /\ \E sel \in SelectEndpoint(lb) :
          /\ sel.ep \notin {NoEndpoint, KeyErrorRaised}
          /\ lb' = [lb EXCEPT !.current_index = sel.index]
          /\ th' = [th EXCEPT ![t].pc = "inc_read", ![t].ep = sel.ep]
    /\ UNCHANGED <<cb, thRest>>

\* increment_connections reads the counter
ThreadIncrementRead(t) ==
    /\ th[t].pc = "inc_read"
    /\ th' = [th EXCEPT ![t].pc = "inc_write", ![t].read = Count(lb, th[t].ep)]
    /\ UNCHANGED <<lb, cb, thRest>>

\* increment_connections writes the counter and the selection time
ThreadIncrementWrite(t) ==
    /\ th[t].pc = "inc_write"
    /\ lb' = WriteIncrement(lb, th[t].ep, th[t].read, now)
    /\ th' = [th EXCEPT ![t].pc = "call", ![t].read = 0]
    /\ UNCHANGED <<cb, thRest>>

\* self._circuit_breaker.call(...): rejected, or the HTTP call succeeds or
\* fails and _do_request marks the endpoint
ThreadCall(t) ==
    /\ th[t].pc = "call"
    /\ IF CBRejects(cb, now)
       THEN UNCHANGED <<lb, cb>>
       ELSE \/ /\ lb' = MarkHealthy(lb, th[t].ep)
               /\ cb' = CBOnSuccess(CBAdmit(cb, now))
            \/ /\ lb' = MarkUnhealthy(lb, th[t].ep)
               /\ cb' = CBOnFailure(CBAdmit(cb, now), now)
    /\ th' = [th EXCEPT ![t].pc = "dec_read"]
    /\ UNCHANGED thRest

\* decrement_connections reads the counter
ThreadDecrementRead(t) ==
    /\ th[t].pc = "dec_read"
    /\ th' = [th EXCEPT ![t].pc = "dec_write", ![t].read = Count(lb, th[t].ep)]
    /\ UNCHANGED <<lb, cb, thRest>>

\* decrement_connections writes the counter; the attempt is over
ThreadDecrementWrite(t) ==
    /\ th[t].pc = "dec_write"
    /\ lb' = WriteDecrement(lb, th[t].ep, th[t].read)
    /\ th' = [th EXCEPT ![t] = [IdleThread EXCEPT !.done = th[t].done + 1]]
    /\ UNCHANGED <<cb, thRest>>

NextThreads ==
    \E t \in Threads :
        \/ ThreadSelect(t)
        \/ ThreadIncrementRead(t)
        \/ ThreadIncrementWrite(t)
        \/ ThreadCall(t)
        \/ ThreadDecrementRead(t)
        \/ ThreadDecrementWrite(t)

SpecThreads == InitThreads /\ [][NextThreads]_vars

----------------------------------------------------------------------------
(* Claims about threads sharing one client, checked under SpecThreads *)

\* No thread is inside increment_connections or decrement_connections
NoCounterUpdateRunning ==
    \A t \in Threads : th[t].pc \in {"idle", "call", "dec_read"}

\* C30: whenever no thread is inside increment_connections or
\* decrement_connections, the in-flight count of every endpoint is the number
\* of attempts between their increment_connections and decrement_connections
\* on it; it is 0 for every endpoint once all attempts have completed.
C30_CountersSafeUnderThreads ==
    NoCounterUpdateRunning =>
        \A ep \in Range(lb.endpoints) :
            Count(lb, ep) = Cardinality(InFlight(ep))

----------------------------------------------------------------------------
(* SpecBreakerThreads: the threads share one CircuitBreaker.  Each `with     *)
(* self._lock:` block is entered in one step (the lock is acquired) and     *)
(* left in another (its statements run and the lock is released); the       *)
(* wrapped work is a step of its own between the blocks of call().          *)

\* th[t].pc: "idle" outside the breaker; "gate" inside the first block of
\* call(); "work" while func runs; "returned" / "raised" after func, before
\* the lock is taken again; "on_success" / "on_failure" inside the second
\* block; "in_reset" / "in_get_state" inside the blocks of those methods.
\* th[t].done: invocations finished; th[t].ret: how the last one ended.
IdleCaller == [pc |-> "idle", done |-> 0, ret |-> "none"]

\* The positions inside a `with self._lock:` block
LockedBlocks == {"gate", "on_success", "on_failure", "in_reset", "in_get_state"}

\* Mutant: the lock is held across func as well
HoldsLockDuringWork(pc) == pc \in LockedBlocks \cup {"work"}

\* A thread at pc holds self._lock
HoldsLock(pc) == pc \in LockedBlocks

\* Lock.acquire succeeds
LockFree == \A t \in Threads : ~HoldsLock(th[t].pc)

\* What SpecBreakerThreads leaves alone
btRest == <<cbth, cbobs, rpVars, lb, net, rq, cobs, lbobs, srVars, disc, dobs>>

InitBreakerThreads ==
    /\ now = 0
    /\ \E ft \in 1..MaxBreakerThreshold : BreakerCallerUnused(ft, 1)
    /\ th = [t \in Threads |-> IdleCaller]
    /\ disc = <<>> /\ dobs = <<>>
    /\ RetryUnused
    /\ lb = LoadBalancerInit(<<>>, ROUND_ROBIN)
    /\ net = <<>>
    /\ rq = NoRequest
    /\ cobs = [requests |-> 0, http |-> 0, pre |-> cb]
    /\ lbobs = NoLBObs
    /\ RegistryUnused

BTTick ==
    /\ now < MaxBreakerTime
    /\ now' = now + 1
    /\ UNCHANGED <<cb, th, btRest>>

\* A finished invocation
Finished(c, how) == [pc |-> "idle", done |-> c.done + 1, ret |-> how]

\* call(): `with self._lock:` at line 62
BTCallEnter(t) ==
    /\ th[t].pc = "idle"
    /\ th[t].done < MaxBreakerOps
    /\ LockFree
    /\ th' = [th EXCEPT ![t].pc = "gate"]
    /\ UNCHANGED <<now, cb, btRest>>

\* call(): lines 63-80, the gate raises or lets the call through
BTGate(t) ==
    /\ th[t].pc = "gate"
    /\ IF CBRejects(cb, now)
       THEN /\ th' = [th EXCEPT ![t] = Finished(th[t], "rejected")]
            /\ cb' = cb
       ELSE /\ th' = [th EXCEPT ![t].pc = "work"]
            /\ cb' = CBAdmit(cb, now)
    /\ UNCHANGED <<now, btRest>>

\* func returns or raises
BTWork(t) ==
    /\ th[t].pc = "work"
    /\ \E out \in {"returned", "raised"} : th' = [th EXCEPT ![t].pc = out]
    /\ UNCHANGED <<now, cb, btRest>>

\* call(): `with self._lock:` at line 86 or at line 99
BTOutcomeEnter(t) ==
    /\ th[t].pc \in {"returned", "raised"}
    /\ LockFree
    /\ th' = [th EXCEPT ![t].pc = IF th[t].pc = "returned"
                                  THEN "on_success" ELSE "on_failure"]
    /\ UNCHANGED <<now, cb, btRest>>

\* call(): lines 87-96
BTRecordSuccess(t) ==
    /\ th[t].pc = "on_success"
    /\ cb' = CBOnSuccess(cb)
    /\ th' = [th EXCEPT ![t] = Finished(th[t], "returned")]
    /\ UNCHANGED <<now, btRest>>

\* call(): lines 100-121
BTRecordFailure(t) ==
    /\ th[t].pc = "on_failure"
    /\ cb' = CBOnFailure(cb, now)
    /\ th' = [th EXCEPT ![t] = Finished(th[t], "raised")]
    /\ UNCHANGED <<now, btRest>>

\* reset(): `with self._lock:` at line 130
BTResetEnter(t) ==
    /\ th[t].pc = "idle"
    /\ th[t].done < MaxBreakerOps
    /\ LockFree
    /\ th' = [th EXCEPT ![t].pc = "in_reset"]
    /\ UNCHANGED <<now, cb, btRest>>

\* reset(): lines 131-134
BTReset(t) ==
    /\ th[t].pc = "in_reset"
    /\ cb' = CBReset(cb)
    /\ th' = [th EXCEPT ![t] = Finished(th[t], "reset")]
    /\ UNCHANGED <<now, btRest>>

\* get_state(): `with self._lock:` at line 125
BTGetStateEnter(t) ==
    /\ th[t].pc = "idle"
    /\ th[t].done < MaxBreakerOps
    /\ LockFree
    /\ th' = [th EXCEPT ![t].pc = "in_get_state"]
    /\ UNCHANGED <<now, cb, btRest>>

\* get_state(): line 126
BTGetState(t) ==
    /\ th[t].pc = "in_get_state"
    /\ th' = [th EXCEPT ![t] = Finished(th[t], cb.state)]
    /\ UNCHANGED <<now, cb, btRest>>

NextBreakerThreads ==
    \/ BTTick
    \/ \E t \in Threads :
          \/ BTCallEnter(t)
          \/ BTGate(t)
          \/ BTWork(t)
          \/ BTOutcomeEnter(t)
          \/ BTRecordSuccess(t)
          \/ BTRecordFailure(t)
          \/ BTResetEnter(t)
          \/ BTReset(t)
          \/ BTGetStateEnter(t)
          \/ BTGetState(t)

SpecBreakerThreads == InitBreakerThreads /\ [][NextBreakerThreads]_vars

----------------------------------------------------------------------------
(* Claims about threads sharing one CircuitBreaker, checked under           *)
(* SpecBreakerThreads *)

\* The threads inside a block of bookkeeping (gate, outcome update, reset,
\* get_state)
Bookkeeping == {t \in Threads : th[t].pc \in LockedBlocks}
\* The threads whose wrapped work is executing
Working == {t \in Threads : th[t].pc = "work"}

\* C31: at most one thread at a time is inside a block of bookkeeping, and
\* while a thread's work is executing and no thread is inside such a block,
\* every other thread that is outside the breaker can enter get_state(),
\* reset() and the gate of its own call(): the lock is not held for the
\* duration of the work.
C31_LockGuardsBookkeepingOnly ==
    /\ Cardinality(Bookkeeping) <= 1
    /\ \A t \in Working : \A u \in Threads \ {t} :
          (Bookkeeping = {} /\ th[u].pc = "idle" /\ th[u].done < MaxBreakerOps)
          => /\ ENABLED BTGetStateEnter(u)
             /\ ENABLED BTResetEnter(u)
             /\ ENABLED BTCallEnter(u)

\* t1's work is executing and t2 has entered get_state() meanwhile; before
\* that t2 completed a reset()
C31_Witness ==
    /\ th["t1"].pc = "work"
    /\ th["t2"].pc = "in_get_state"
    /\ th["t2"].ret = "reset"

\* C32: whatever the interleaving of call() and reset(), an OPEN breaker has
\* a recorded last_failure_time, and once recovery_timeout has elapsed since
\* then the gate lets a call through.
C32_OpenHasFailureTime ==
    cb.state = OPEN =>
        /\ cb.last_failure_time # None
        /\ RecoveryElapsed(cb, now) => ~CBRejects(cb, now)

\* The breaker is OPEN, t1's last call raised and t2's last call, its second
\* invocation, returned
C32_Witness ==
    /\ cb.state = OPEN
    /\ th["t1"].ret = "raised"
    /\ th["t2"].ret = "returned"
    /\ th["t2"].done = 2

\* A thread records the failure of its call
RecordsFailure ==
    \E t \in Threads : th[t].pc = "on_failure" /\ th'[t].pc = "idle"

\* C33: a failure recorded while the breaker is OPEN changes neither the
\* failure counter nor last_failure_time.
C33_LateFailureLeavesOpenBreaker ==
    [][ (cb.state = OPEN /\ RecordsFailure)
        => /\ cb'.failure_count = cb.failure_count
           /\ cb'.last_failure_time = cb.last_failure_time ]_vars

\* C35: whatever the interleaving of call() and reset(), the failure counter
\* is never negative and is below failure_threshold while the breaker is
\* CLOSED.
C35_ClosedBelowThreshold ==
    /\ cb.failure_count >= 0
    /\ cb.state = CLOSED => cb.failure_count < cb.failure_threshold

\* The breaker is CLOSED one failure below its threshold while t1's work is
\* executing and t2 has done a reset() and a failed call
C35_Witness ==
    /\ cb.state = CLOSED
    /\ cb.failure_count = 1
    /\ cb.failure_threshold = 2
    /\ th["t1"].pc = "work"
    /\ th["t2"].done = 2

\* C36: while the breaker is HALF_OPEN the wrapped work of at most one call
\* is executing.
C36_SingleTrialInHalfOpen ==
    cb.state = HALF_OPEN => Cardinality(Working) <= 1

----------------------------------------------------------------------------
(* Claims about the endpoints of a constructed client, checked under        *)
(* SpecDiscovery *)

\* C38: a client that has been constructed has a balancer with at least one
\* endpoint, and none of its requests raises 'no endpoints available'.
C38_EndpointsNeverEmpty ==
    disc.pc = "ready" =>
        /\ lb.endpoints # <<>>
        /\ dobs.raised # NoHealthyEndpoints

====
